---- MODULE Spec2Model ----
(***************************************************************************)
(* RecoverHub: failed-payment recovery engine.                             *)
(*                                                                         *)
(* The model covers the Recovery Record Store (failed_payments and         *)
(* retry_attempts rows), the Stripe webhook ingestor, the manual-retry     *)
(* route, the retry-logic library (manualRetry), the BullMQ retry worker   *)
(* (batch scan + retry jobs), the dunning scan and dunning-email jobs, the *)
(* job scheduler and the template renderer.  Every `await` of a handler is *)
(* one atomic step; handlers run concurrently and interleave between       *)
(* steps.                                                                  *)
(* Time is counted in whole days.                                          *)
(***************************************************************************)
EXTENDS Integers, Sequences, FiniteSets, Bags, TLC

VARIABLES
    now,             \* wall clock (Date.now()), in days
    failedPayments,  \* table failed_payments; the row id is the index
    retryAttempts,   \* table retry_attempts; the row id is the index
    wh,              \* webhook deliveries being handled, per slot
    req,             \* manual-retry route requests being handled, per slot
    queue,           \* the BullMQ retry-queue: a bag of waiting retry-jobs
    exec,            \* executeRetryAttempt calls in progress: slot 0 is the web
                     \* library (manualRetry), the others are worker retry-jobs
    scan,            \* the batch-scan job being processed
    chargeCalls,     \* history: the attempt ids with a charge call the gateway
                     \* answered, and those with a second answered call
    dunningEmails,   \* table dunning_emails; the row id is the index
    dunningJobs,     \* the dunning-email jobs the BullMQ dunning-queue knows
    dexec,           \* the executeDunningEmail call in progress
    dscan,           \* the dunning-scan job being processed
    overdue,         \* history: the (payment, template) pairs that were unsent
                     \* and due when the last dunning scan read the tables
    post,            \* the last request to POST /api/stripe/webhook and its answer
    schedules,       \* the repeatable jobs and the one-off scan jobs BullMQ knows
    boot,            \* upsertScheduledJobs calls in progress, per worker process
    rendering,       \* the last template rendered: the arguments and what the
                     \* worker's and the web's renderTemplate returned for them
    trial            \* the last executeRetryAttempt call made on its own: the
                     \* arguments, the gateway's answer, and the outcome of the
                     \* worker's and of the web library's version

\* the dunning tables, queue and jobs
dunning == <<dunningEmails, dunningJobs, dexec, dscan, overdue>>

\* the scheduler's state, the template renderer's and the trial calls
svars == <<schedules, boot, rendering, trial>>

\* the state left alone by the retry side of the system
dvars == <<dunning, svars, post>>

\* the state left alone by the dunning side of the system
rvars == <<retryAttempts, wh, req, queue, exec, scan, chargeCalls, svars, post>>

vars == <<now, failedPayments, retryAttempts, wh, req, queue, exec, scan, chargeCalls,
          dunningEmails, dunningJobs, dexec, dscan, overdue, post, schedules, boot,
          rendering, trial>>

\* ---------------------------------------------------------------- bounds
MaxTime == 3
MaxAttempts == 5
MaxQueue == 2
MaxEmails == 4
MaxRuns == 2
\* the batchSize of a scan job (50 in the job data the scheduler writes),
\* scaled down so that two active payments are more than one batch
batchSize == 1

\* handler slots: how many handlers of each kind can be in progress at once
WebhookSlots == {1, 2}
RequestSlots == {1, 2, 3}
WorkerSlots == {1, 2}

\* ------------------------------------------------------ program constants
NULL == 0 - 1

RETRY_SCHEDULE_DAYS == <<3, 7, 14>>
MAX_ATTEMPTS == Len(RETRY_SCHEDULE_DAYS)
MAX_MANUAL_RETRIES_PER_DAY == 3
FIRST_RETRY_DAYS == 3
JOB_ATTEMPTS == 3

Invoices == {"in_1", "in_2"}
Users == {"u1", "u2"}
\* stripe_connections is static here: the connected account of u1, and an
\* account of u2 whose stored access token does not decrypt (tokenOk)
StripeAccounts == {"acct_1", "acct_unknown"}
stripeConnections ==
    <<[userId |-> "u1", stripeAccountId |-> "acct_1", tokenOk |-> TRUE],
      [userId |-> "u2", stripeAccountId |-> "acct_2", tokenOk |-> FALSE]>>

CaseIds == 1..Len(failedPayments)
AttemptIds == 1..Len(retryAttempts)

\* db.query.stripeConnections.findFirst(where stripeAccountId = acct)
FindConnection(acct) ==
    IF \E c \in 1..Len(stripeConnections) : stripeConnections[c].stripeAccountId = acct
    THEN CHOOSE c \in 1..Len(stripeConnections) : stripeConnections[c].stripeAccountId = acct
    ELSE NULL

\* ------------------------------------------------------------------ clock
Tick ==
    /\ now < MaxTime
    /\ now' = now + 1
    /\ UNCHANGED <<failedPayments, retryAttempts, wh, req, queue, exec, scan, chargeCalls, dvars>>

\* ------------------------------------------------------- webhook ingestor
WhIdle == [pc |-> "idle", conn |-> NULL, invoice |-> "", fp |-> NULL]

\* daysFromNow(days): Date.now() + days * 24h, read when it is called
daysFromNow(days) == now + days

\* POST /api/stripe/webhook for a verified connected-account event, up to and
\* including the connection lookup that opens both handlers.
WebhookReceive(h, type, acct, inv) ==
    /\ wh[h].pc = "idle"
    /\ LET conn == FindConnection(acct) IN
         IF conn = NULL
         THEN UNCHANGED wh
         ELSE wh' = [wh EXCEPT ![h] = [pc |-> IF type = "invoice.payment_failed"
                                               THEN "pf_find" ELSE "ps_find",
                                        conn |-> conn, invoice |-> inv, fp |-> NULL]]
    /\ UNCHANGED <<now, failedPayments, retryAttempts, req, queue, exec, scan, chargeCalls,
                   dunning, svars>>

\* handlePaymentFailed: the idempotency check
ExistingCase(conn, inv) ==
    \E c \in CaseIds : /\ failedPayments[c].stripeConnectionId = conn
                       /\ failedPayments[c].stripeInvoiceId = inv

PfFindExisting(h) ==
    /\ wh[h].pc = "pf_find"
    /\ wh' = [wh EXCEPT ![h] = IF ExistingCase(wh[h].conn, wh[h].invoice)
                                THEN WhIdle
                                ELSE [@ EXCEPT !.pc = "pf_insert"]]
    /\ UNCHANGED <<now, failedPayments, retryAttempts, req, queue, exec, scan, chargeCalls, dvars>>

\* handlePaymentFailed: insert the failed_payments row
PfInsertCase(h) ==
    /\ wh[h].pc = "pf_insert"
    /\ failedPayments' = Append(failedPayments,
           [userId |-> stripeConnections[wh[h].conn].userId,
            stripeConnectionId |-> wh[h].conn,
            stripeInvoiceId |-> wh[h].invoice,
            status |-> "active",
            recoveryStartedAt |-> now,
            recoveredAt |-> NULL,
            createdAt |-> now])
    /\ wh' = [wh EXCEPT ![h].pc = "pf_schedule", ![h].fp = Len(failedPayments) + 1]
    /\ UNCHANGED <<now, retryAttempts, req, queue, exec, scan, chargeCalls, dvars>>

\* handlePaymentFailed: schedule the first retry attempt (Day 3)
PfInsertAttempt(h) ==
    /\ wh[h].pc = "pf_schedule"
    /\ Len(retryAttempts) < MaxAttempts
    /\ retryAttempts' = Append(retryAttempts,
           [failedPaymentId |-> wh[h].fp,
            attemptNumber |-> 1,
            scheduledAt |-> daysFromNow(FIRST_RETRY_DAYS),
            attemptedAt |-> NULL,
            status |-> "pending",
            stripeErrorCode |-> NULL,
            origin |-> "webhook"])
    /\ wh' = [wh EXCEPT ![h] = WhIdle]
    /\ UNCHANGED <<now, failedPayments, req, queue, exec, scan, chargeCalls, dvars>>

\* handlePaymentSucceeded: find an active failed payment for the invoice
ActiveCases(conn, inv) ==
    {c \in CaseIds : /\ failedPayments[c].stripeConnectionId = conn
                     /\ failedPayments[c].stripeInvoiceId = inv
                     /\ failedPayments[c].status = "active"}

PsFind(h) ==
    /\ wh[h].pc = "ps_find"
    /\ IF ActiveCases(wh[h].conn, wh[h].invoice) = {}
       THEN wh' = [wh EXCEPT ![h] = WhIdle]
       ELSE \E c \in ActiveCases(wh[h].conn, wh[h].invoice) :
                wh' = [wh EXCEPT ![h].pc = "ps_update", ![h].fp = c]
    /\ UNCHANGED <<now, failedPayments, retryAttempts, req, queue, exec, scan, chargeCalls, dvars>>

\* handlePaymentSucceeded: mark the failed payment recovered
PsUpdate(h) ==
    /\ wh[h].pc = "ps_update"
    /\ failedPayments' = [failedPayments EXCEPT ![wh[h].fp].status = "recovered",
                                                ![wh[h].fp].recoveredAt = now]
    /\ wh' = [wh EXCEPT ![h].pc = "ps_skip"]
    /\ UNCHANGED <<now, retryAttempts, req, queue, exec, scan, chargeCalls, dvars>>

\* SkipPending with the update limited to the attempts that are already due
SkipPendingDue(attempts, fp) ==
    [a \in 1..Len(attempts) |->
        IF /\ attempts[a].failedPaymentId = fp
           /\ attempts[a].status = "pending"
           /\ attempts[a].scheduledAt <= now
        THEN [attempts[a] EXCEPT !.status = "skipped"]
        ELSE attempts[a]]

\* UPDATE retry_attempts SET status = 'skipped'
\*  WHERE failed_payment_id = fp AND status = 'pending'
SkipPending(attempts, fp) ==
    [a \in 1..Len(attempts) |->
        IF attempts[a].failedPaymentId = fp /\ attempts[a].status = "pending"
        THEN [attempts[a] EXCEPT !.status = "skipped"]
        ELSE attempts[a]]

\* handlePaymentSucceeded: cancel all pending retry attempts
PsSkip(h) ==
    /\ wh[h].pc = "ps_skip"
    /\ retryAttempts' = SkipPending(retryAttempts, wh[h].fp)
    /\ wh' = [wh EXCEPT ![h] = WhIdle]
    /\ UNCHANGED <<now, failedPayments, req, queue, exec, scan, chargeCalls, dvars>>

Webhook(h, invoices) ==
        \/ \E type \in {"invoice.payment_failed", "invoice.payment_succeeded"},
              acct \in StripeAccounts, inv \in invoices :
                WebhookReceive(h, type, acct, inv) /\ UNCHANGED post
        \/ PfFindExisting(h)
        \/ PfInsertCase(h)
        \/ PfInsertAttempt(h)
        \/ PsFind(h)
        \/ PsUpdate(h)
        \/ PsSkip(h)


\* ------------------------------------- webhook endpoint: the signature check
\* A hex string is a sequence of character pairs, "zz" being a pair that is
\* not hexadecimal; two pairs stand for the 64 characters of a SHA-256 digest.
HexPairs == {"ab", "cd", "zz"}

\* Buffer.from(sig, "hex"): the bytes of the pairs up to the first pair that
\* is not hexadecimal, where decoding stops
FromHex(sig) ==
    LET n == CHOOSE k \in 0..Len(sig) :
                 /\ \A i \in 1..k : sig[i] # "zz"
                 /\ k = Len(sig) \/ sig[k + 1] = "zz"
    IN [i \in 1..n |-> sig[i]]

\* expected: the hex digest of HMAC-SHA256(secret, timestamp + "." + payload)
\* of the request at hand
ExpectedSignature == <<"ab", "cd">>

\* the comparison inside signatures.some: equal string lengths, then the
\* bytes of the candidate against the bytes of the digest, over the
\* candidate's bytes
SignatureMatches(sig) ==
    /\ Len(sig) = Len(ExpectedSignature)
    /\ LET a == FromHex(sig)
           b == FromHex(ExpectedSignature)
       IN \A i \in 1..Len(a) : a[i] = b[i]

TOLERANCE_SECONDS == 300

\* the t= element of the header: absent, not a number (parseInt gives NaN), or
\* a number, given by the seconds it lies behind the server's clock
NoTimestamp == [given |-> FALSE, number |-> FALSE, skew |-> 0]
Timestamps ==
    {NoTimestamp, [given |-> TRUE, number |-> FALSE, skew |-> 0]} \cup
    {[given |-> TRUE, number |-> TRUE, skew |-> d] :
        d \in {0 - TOLERANCE_SECONDS - 1, 0 - TOLERANCE_SECONDS, 0,
               TOLERANCE_SECONDS, TOLERANCE_SECONDS + 1}}

\* the v1= elements of the header: none, one candidate, or a candidate after
\* one that is a digest of something else
Candidates == {<<"ab">>} \cup {<<x, y>> : x, y \in HexPairs}
SignatureLists ==
    {<<>>} \cup {<<c>> : c \in Candidates} \cup {<<<<"cd", "ab">>, c>> : c \in Candidates}

NoHeader == [present |-> FALSE, t |-> NoTimestamp, v1 |-> <<>>]
SigHeaders == {NoHeader} \cup [present : {TRUE}, t : Timestamps, v1 : SignatureLists]

\* verifyStripeSignature(payload, sigHeader, secret): the error it throws, or
\* "event".  A comparison with NaN is false, so a timestamp that is not a
\* number passes the tolerance check.  JSON.parse of the payload is taken to
\* succeed.
verifyStripeSignature(sigHeader) ==
    IF ~sigHeader.t.given \/ sigHeader.v1 = <<>>
    THEN "Invalid Stripe-Signature header"
    ELSE IF /\ sigHeader.t.number
            /\ (IF sigHeader.t.skew < 0 THEN 0 - sigHeader.t.skew ELSE sigHeader.t.skew)
                  > TOLERANCE_SECONDS
    THEN "Stripe webhook timestamp too old (>5 min)"
    ELSE IF ~\E i \in 1..Len(sigHeader.v1) : SignatureMatches(sigHeader.v1[i])
    THEN "Stripe webhook signature mismatch"
    ELSE "event"

\* the status of the response of POST /api/stripe/webhook.  Once the signature
\* is verified every exit of POST answers 200: the return that ends the try
\* block and the return of its catch.
PostStatus(sigHeader, secret) ==
    IF ~sigHeader.present THEN 400
    ELSE IF ~secret THEN 500
    ELSE IF verifyStripeSignature(sigHeader) # "event" THEN 400
    ELSE 200

NoRequest == [sigHeader |-> NoHeader, secret |-> TRUE, response |-> NULL]

EventTypes == {"invoice.payment_failed", "invoice.payment_succeeded", "customer.created"}

\* POST /api/stripe/webhook for a connected-account event: the header check,
\* the webhook secret (configured or not), the signature check, and for an
\* event type with a handler the start of the handler
Post(h, sigHeader, secret, type, acct, inv) ==
    /\ wh[h].pc = "idle"
    /\ post' = [sigHeader |-> sigHeader, secret |-> secret,
                response |-> PostStatus(sigHeader, secret)]
    /\ IF PostStatus(sigHeader, secret) = 200 /\ type # "customer.created"
       THEN WebhookReceive(h, type, acct, inv)
       ELSE UNCHANGED <<now, failedPayments, retryAttempts, wh, req, queue, exec, scan,
                        chargeCalls, dunning, svars>>

\* a query of the handler rejects: the handler is left through the catch of
\* POST, which answers 200
WhThrow(h) ==
    /\ wh[h].pc # "idle"
    /\ wh' = [wh EXCEPT ![h] = WhIdle]
    /\ UNCHANGED <<now, failedPayments, retryAttempts, req, queue, exec, scan, chargeCalls, dvars>>

\* the steps of handlePaymentFailed and handlePaymentSucceeded
WebhookHandle(h) ==
    \/ PfFindExisting(h)
    \/ PfInsertCase(h)
    \/ PfInsertAttempt(h)
    \/ PsFind(h)
    \/ PsUpdate(h)
    \/ PsSkip(h)

\* ---------------------------------------------- scheduler: repeating scans
SCAN_INTERVAL_MS == 6 * 60 * 60 * 1000
DUNNING_SCAN_INTERVAL_MS == 60 * 60 * 1000

\* the worker processes that call upsertScheduledJobs when they start
WorkerProcesses == {1, 2}

\* schedules.repeat: the repeatable jobs of the two queues, by their key;
\* schedules.once: the ids of the one-off startup scans the queues know
NoSchedules == [repeat |-> {}, once |-> {}]
BootIdle == [pc |-> "idle", runs |-> 0]

\* RepeatKey with the job's data in the key
RepeatKeyWithData(queueName, name, jobId, every, data) ==
    [queue |-> queueName, name |-> name, jobId |-> jobId, every |-> every, data |-> data]

\* the key under which BullMQ keeps a repeatable job: the job's name, its
\* jobId and its repeat options; the job's data is not part of it
RepeatKey(queueName, name, jobId, every, data) ==
    [queue |-> queueName, name |-> name, jobId |-> jobId, every |-> every, data |-> NULL]

\* queue.add(name, data, {repeat: {every}, jobId}): a repeatable job whose
\* key is known is kept, not added again
AddRepeatable(queueName, name, jobId, every, data) ==
    [schedules EXCEPT !.repeat = @ \cup {RepeatKey(queueName, name, jobId, every, data)}]

\* upsertScheduledJobs: register the repeating batch-scan (triggeredAt is the
\* time of the call)
UpsertBatchScan(p) ==
    /\ boot[p].pc = "idle"
    /\ boot[p].runs < MaxRuns
    /\ schedules' = AddRepeatable("retry-queue", "batch-scan", "recoverhub:batch-scan",
                                  SCAN_INTERVAL_MS, now)
    /\ boot' = [boot EXCEPT ![p].pc = "retry_startup"]
    /\ UNCHANGED <<now, failedPayments, retryAttempts, wh, req, queue, exec, scan, chargeCalls,
                   dunning, post, rendering, trial>>

\* upsertScheduledJobs: queue the immediate startup retry scan
UpsertBatchStartup(p) ==
    /\ boot[p].pc = "retry_startup"
    /\ schedules' = [schedules EXCEPT
           !.once = @ \cup {<<"retry-queue", "recoverhub:batch-scan:startup">>}]
    /\ boot' = [boot EXCEPT ![p].pc = "dunning_repeat"]
    /\ UNCHANGED <<now, failedPayments, retryAttempts, wh, req, queue, exec, scan, chargeCalls,
                   dunning, post, rendering, trial>>

\* upsertScheduledJobs: register the repeating dunning-scan
UpsertDunningScan(p) ==
    /\ boot[p].pc = "dunning_repeat"
    /\ schedules' = AddRepeatable("dunning-queue", "dunning-scan", "recoverhub:dunning-scan",
                                  DUNNING_SCAN_INTERVAL_MS, now)
    /\ boot' = [boot EXCEPT ![p].pc = "dunning_startup"]
    /\ UNCHANGED <<now, failedPayments, retryAttempts, wh, req, queue, exec, scan, chargeCalls,
                   dunning, post, rendering, trial>>

\* upsertScheduledJobs: queue the immediate startup dunning scan; the call
\* returns
UpsertDunningStartup(p) ==
    /\ boot[p].pc = "dunning_startup"
    /\ schedules' = [schedules EXCEPT
           !.once = @ \cup {<<"dunning-queue", "recoverhub:dunning-scan:startup">>}]
    /\ boot' = [boot EXCEPT ![p] = [pc |-> "idle", runs |-> boot[p].runs + 1]]
    /\ UNCHANGED <<now, failedPayments, retryAttempts, wh, req, queue, exec, scan, chargeCalls,
                   dunning, post, rendering, trial>>

upsertScheduledJobs(p) ==
    \/ UpsertBatchScan(p)
    \/ UpsertBatchStartup(p)
    \/ UpsertDunningScan(p)
    \/ UpsertDunningStartup(p)

\* ----------------------------------------------------- template renderer
\* A text is a sequence of pieces: a {{token}}, one of the replacement
\* patterns of String.prototype.replace ($$ and $&), or a piece of plain text.
\* text.replaceAll(searchValue, replaceValue) and text.replace(/searchValue/g,
\* replaceValue) with a string replaceValue: every match is replaced by
\* replaceValue with its patterns expanded, $$ to $ and $& to the match
RECURSIVE ReplaceAll(_, _, _)
ReplaceAll(text, searchValue, replaceValue) ==
    IF text = <<>> THEN <<>>
    ELSE LET substitution ==
                 [i \in 1..Len(replaceValue) |->
                     IF replaceValue[i] = "$$" THEN "$"
                     ELSE IF replaceValue[i] = "$&" THEN searchValue
                     ELSE replaceValue[i]]
         IN (IF Head(text) = searchValue THEN substitution ELSE <<Head(text)>>)
               \o ReplaceAll(Tail(text), searchValue, replaceValue)

\* the worker's renderTemplate: one replaceAll per entry of vars, in the
\* order of Object.entries(vars); an entry is <<key, value>>
RECURSIVE renderTemplate(_, _)
renderTemplate(template, entries) ==
    IF entries = <<>> THEN template
    ELSE renderTemplate(ReplaceAll(template, "{{" \o Head(entries)[1] \o "}}", Head(entries)[2]),
                        Tail(entries))

\* the web's renderTemplate: three replace calls in a chain
webRenderTemplate(template, values) ==
    ReplaceAll(ReplaceAll(ReplaceAll(template, "{{customer_name}}", values.customer_name),
                          "{{amount_due}}", values.amount_due),
               "{{update_link}}", values.update_link)

\* a template is rendered: by executeDunningEmail, which builds vars in the
\* order customer_name, amount_due, update_link, and for the same arguments
\* by the web (values stands for the argument vars).  The customer's name comes from the Stripe invoice.
Render ==
    \E template \in UNION {[1..n -> {"{{customer_name}}", "{{amount_due}}", "{{update_link}}",
                                     "{{foo}}", "Hi "}] : n \in 0..2},
       name \in {<<"Ann">>, <<"Ca", "$$", "h Inc">>, <<"$&">>, <<"{{update_link}}">>} :
         LET values == [customer_name |-> name,
                      amount_due |-> <<"$49.99">>,
                      update_link |-> <<"https://app/billing/update">>]
         IN /\ rendering' =
                  [template |-> template, vars |-> values,
                   worker |-> renderTemplate(template,
                                 <<<<"customer_name", values.customer_name>>,
                                   <<"amount_due", values.amount_due>>,
                                   <<"update_link", values.update_link>>>>),
                   web |-> webRenderTemplate(template, values)]
            /\ UNCHANGED <<now, failedPayments, retryAttempts, wh, req, queue, exec, scan,
                           chargeCalls, dunning, post, schedules, boot, trial>>

InitServices ==
    /\ post = NoRequest
    /\ schedules = NoSchedules
    /\ boot = [p \in WorkerProcesses |-> BootIdle]
    /\ rendering = [template |-> <<>>, vars |-> <<>>, worker |-> <<>>, web |-> <<>>]
    /\ trial = [called |-> FALSE]

\* ------------------------------------------------------- retry scheduler
\* calculateNextRetryAt with a schedule that starts over after its last entry
calculateNextRetryAtCyclic(recoveryStartedAt, nextAttemptNumber) ==
    recoveryStartedAt + RETRY_SCHEDULE_DAYS[((nextAttemptNumber - 1) % MAX_ATTEMPTS) + 1]

\* calculateNextRetryAt(recoveryStartedAt, nextAttemptNumber); setDate(getDate()
\* + daysOffset) moves the date by whole calendar days
calculateNextRetryAt(recoveryStartedAt, nextAttemptNumber) ==
    IF nextAttemptNumber > MAX_ATTEMPTS
    THEN NULL
    ELSE recoveryStartedAt + RETRY_SCHEDULE_DAYS[nextAttemptNumber]

\* a retry_attempts row as every insert of the code writes it: the columns
\* stripe_error_code and stripe_error_message get no value
NewAttempt(fp, n, at, origin) ==
    [failedPaymentId |-> fp, attemptNumber |-> n, scheduledAt |-> at,
     attemptedAt |-> NULL, status |-> "pending", stripeErrorCode |-> NULL,
     origin |-> origin]

AttemptsOf(fp) == {a \in AttemptIds : retryAttempts[a].failedPaymentId = fp}

\* ---------------------------------------------------------- retry queue
\* A retry-job as BullMQ keeps it: the payload, the custom jobId (NoJobId when
\* BullMQ generates one) and the number of processing attempts made so far.
NoJobId == <<>>

Job(fp, a, n, jobId) ==
    [failedPaymentId |-> fp, attemptId |-> a, attemptNumber |-> n,
     jobId |-> jobId, attemptsMade |-> 0]

QueueSize == BagCardinality(queue)

\* QueueAdd with ids that name the payment only
QueueAddPerPayment(q, job) ==
    IF job.jobId # NoJobId /\ \E j \in BagToSet(q) : j.failedPaymentId = job.failedPaymentId
    THEN q
    ELSE q (+) SetToBag({job})

\* queue.add(name, data, {jobId}): a job whose custom id is already known to
\* the queue is not added again
QueueAdd(q, job) ==
    IF job.jobId # NoJobId /\ \E j \in BagToSet(q) : j.jobId = job.jobId
    THEN q
    ELSE q (+) SetToBag({job})

\* ------------------------------------------------------- batch scan loop
ScanIdle == [pc |-> "idle", due |-> {}]

\* fetchDueRetries: pending attempts with scheduledAt <= now of active payments
fetchDueRetries ==
    {a \in AttemptIds :
        /\ retryAttempts[a].status = "pending"
        /\ retryAttempts[a].scheduledAt <= now
        /\ retryAttempts[a].failedPaymentId \in CaseIds
        /\ failedPayments[retryAttempts[a].failedPaymentId].status = "active"}

\* processBatchScan up to the early return on an empty result
ScanFetch ==
    /\ scan.pc = "idle"
    /\ scan' = IF fetchDueRetries = {} THEN ScanIdle
               ELSE [pc |-> "enqueue", due |-> fetchDueRetries]
    /\ UNCHANGED <<now, failedPayments, retryAttempts, wh, req, queue, exec, chargeCalls, dvars>>

\* processBatchScan: retryQueue.addBulk(jobPayloads), no jobId given
ScanEnqueue ==
    /\ scan.pc = "enqueue"
    /\ QueueSize + Cardinality(scan.due) <= MaxQueue
    /\ queue' = queue (+) [j \in {Job(retryAttempts[a].failedPaymentId, a,
                                      retryAttempts[a].attemptNumber, NoJobId) : a \in scan.due}
                           |-> 1]
    /\ scan' = ScanIdle
    /\ UNCHANGED <<now, failedPayments, retryAttempts, wh, req, exec, chargeCalls, dvars>>

BatchScan == ScanFetch \/ ScanEnqueue

\* ------------------------------------------------------- retry executor
ExecIdle == [pc |-> "idle", job |-> NULL, failedPaymentId |-> NULL, attemptId |-> NULL,
             payment |-> NULL, attemptNumber |-> NULL, success |-> FALSE, answer |-> ""]

LibSlot == 0
IsWorker(e) == e # LibSlot

\* the worker takes a waiting retry-job: processRetryJob
WorkerTake(e) ==
    /\ IsWorker(e)
    /\ exec[e].pc = "idle"
    /\ \E j \in BagToSet(queue) :
         /\ queue' = queue (-) SetToBag({j})
         /\ exec' = [exec EXCEPT ![e] = [ExecIdle EXCEPT !.pc = "ex_fetch", !.job = j,
                                            !.failedPaymentId = j.failedPaymentId,
                                            !.attemptId = j.attemptId]]
    /\ UNCHANGED <<now, failedPayments, retryAttempts, wh, req, scan, chargeCalls, dvars>>

\* executeRetryAttempt threw.  In the worker the job framework retries the job
\* while it has processing attempts left; in the library the error goes to the
\* caller.
Thrown(e) ==
    /\ exec' = [exec EXCEPT ![e] = ExecIdle]
    /\ IF IsWorker(e) /\ exec[e].job.attemptsMade + 1 < JOB_ATTEMPTS
       THEN queue' = queue (+) SetToBag({[exec[e].job EXCEPT !.attemptsMade = @ + 1]})
       ELSE UNCHANGED queue

\* the checks that open executeRetryAttempt: the payment exists, is active,
\* has a stripeInvoiceId, has a connection, and the access token decrypts
PreconditionFails(fp) ==
    \/ fp \notin CaseIds
    \/ failedPayments[fp].status # "active"
    \/ failedPayments[fp].stripeInvoiceId = ""
    \/ failedPayments[fp].stripeConnectionId \notin 1..Len(stripeConnections)
    \/ ~stripeConnections[failedPayments[fp].stripeConnectionId].tokenOk

\* ExFetch without the status check
ExFetchAnyStatus(e) ==
    /\ exec[e].pc = "ex_fetch"
    /\ LET fp == exec[e].failedPaymentId IN
         IF \/ fp \notin CaseIds
            \/ failedPayments[fp].stripeInvoiceId = ""
            \/ failedPayments[fp].stripeConnectionId \notin 1..Len(stripeConnections)
            \/ ~stripeConnections[failedPayments[fp].stripeConnectionId].tokenOk
         THEN Thrown(e)
         ELSE /\ exec' = [exec EXCEPT ![e].pc = "ex_mark", ![e].payment = failedPayments[fp]]
              /\ UNCHANGED queue
    /\ UNCHANGED <<now, failedPayments, retryAttempts, wh, req, scan, chargeCalls, dvars>>

\* executeRetryAttempt steps 1-2: fetch the failed payment with its connection,
\* check it and decrypt the access token; any failure throws
ExFetch(e) ==
    /\ exec[e].pc = "ex_fetch"
    /\ LET fp == exec[e].failedPaymentId IN
         IF PreconditionFails(fp)
         THEN Thrown(e)
         ELSE /\ exec' = [exec EXCEPT ![e].pc = "ex_mark", ![e].payment = failedPayments[fp]]
              /\ UNCHANGED queue
    /\ UNCHANGED <<now, failedPayments, retryAttempts, wh, req, scan, chargeCalls, dvars>>

\* executeRetryAttempt step 3: stamp attemptedAt on the attempt row
ExMark(e) ==
    /\ exec[e].pc = "ex_mark"
    /\ retryAttempts' = [a \in AttemptIds |->
           IF a = exec[e].attemptId THEN [retryAttempts[a] EXCEPT !.attemptedAt = now]
           ELSE retryAttempts[a]]
    /\ exec' = [exec EXCEPT ![e].pc = IF IsWorker(e) THEN "ex_number" ELSE "ex_call"]
    /\ UNCHANGED <<now, failedPayments, wh, req, queue, scan, chargeCalls, dvars>>

\* executeRetryAttempt: attempt?.attemptNumber ?? 1.  The worker reads it
\* before the gateway call, the web library after it.
ExNumber(e) ==
    /\ exec[e].pc = "ex_number"
    /\ exec' = [exec EXCEPT
           ![e].attemptNumber = IF exec[e].attemptId \in AttemptIds
                                THEN retryAttempts[exec[e].attemptId].attemptNumber
                                ELSE 1,
           ![e].pc = IF IsWorker(e) THEN "ex_call"
                     ELSE IF exec[e].success THEN "ex_success" ELSE "ex_failed"]
    /\ UNCHANGED <<now, failedPayments, retryAttempts, wh, req, queue, scan, chargeCalls, dvars>>

\* attemptStripePayment: POST /v1/invoices/:id/pay.  response.ok is a success,
\* every other HTTP answer (a decline, a 5xx) is returned as a failure, and a
\* network error makes fetch throw.
GatewayAnswers == {"ok", "declined", "http_5xx", "network_error"}

ExCall(e, answer) ==
    /\ exec[e].pc = "ex_call"
    /\ IF answer = "network_error"
       THEN /\ Thrown(e)
            /\ UNCHANGED chargeCalls
       ELSE /\ exec' = [exec EXCEPT
                  ![e].success = (answer = "ok"),
                  ![e].answer = answer,
                  ![e].pc = IF ~IsWorker(e) THEN "ex_number"
                            ELSE IF answer = "ok" THEN "ex_success" ELSE "ex_failed"]
            /\ chargeCalls' = [once |-> chargeCalls.once \cup {exec[e].attemptId},
                               again |-> chargeCalls.again \cup
                                         (chargeCalls.once \cap {exec[e].attemptId})]
            /\ UNCHANGED queue
    /\ UNCHANGED <<now, failedPayments, retryAttempts, wh, req, scan, dvars>>

SetAttempt(a, status) ==
    [b \in AttemptIds |->
        IF b = a THEN [retryAttempts[b] EXCEPT !.status = status, !.attemptedAt = now]
        ELSE retryAttempts[b]]

\* success: mark the attempt as success
ExSuccess(e) ==
    /\ exec[e].pc = "ex_success"
    /\ retryAttempts' = SetAttempt(exec[e].attemptId, "success")
    /\ exec' = [exec EXCEPT ![e].pc = "ex_recover"]
    /\ UNCHANGED <<now, failedPayments, wh, req, queue, scan, chargeCalls, dvars>>

\* success: mark the failed payment as recovered
ExRecover(e) ==
    /\ exec[e].pc = "ex_recover"
    /\ failedPayments' = [failedPayments EXCEPT
           ![exec[e].failedPaymentId].status = "recovered",
           ![exec[e].failedPaymentId].recoveredAt = now]
    /\ exec' = [exec EXCEPT ![e].pc = "ex_skip"]
    /\ UNCHANGED <<now, retryAttempts, wh, req, queue, scan, chargeCalls, dvars>>

\* success: skip the remaining pending retries; the call returns
ExSkip(e) ==
    /\ exec[e].pc = "ex_skip"
    /\ retryAttempts' = SkipPending(retryAttempts, exec[e].failedPaymentId)
    /\ exec' = [exec EXCEPT ![e] = ExecIdle]
    /\ UNCHANGED <<now, failedPayments, wh, req, queue, scan, chargeCalls, dvars>>

\* failure: mark the attempt as failed
ExFailed(e) ==
    /\ exec[e].pc = "ex_failed"
    /\ retryAttempts' = SetAttempt(exec[e].attemptId, "failed")
    /\ exec' = [exec EXCEPT ![e].pc = "ex_next"]
    /\ UNCHANGED <<now, failedPayments, wh, req, queue, scan, chargeCalls, dvars>>

\* RetryResult reporting the date of the attempt that was executed
RetryResultOwnDate(e) ==
    [success |-> exec[e].success,
     failedPaymentId |-> exec[e].failedPaymentId,
     attemptId |-> exec[e].attemptId,
     attemptNumber |-> exec[e].attemptNumber,
     nextRetryAt |-> IF exec[e].success THEN NULL
                     ELSE calculateNextRetryAt(exec[e].payment.recoveryStartedAt,
                                               exec[e].attemptNumber)]

\* failure: nextRetryAt, from the recoveryStartedAt of the payment row read
\* in step 1 and the attempt number read in step 4
NextRetryAt(e) ==
    IF exec[e].payment.recoveryStartedAt # NULL
    THEN calculateNextRetryAt(exec[e].payment.recoveryStartedAt, exec[e].attemptNumber + 1)
    ELSE NULL

\* the RetryResult the call returns from its last step: on success
\* nextRetryAt is null, on failure it is the local nextRetryAt
RetryResult(e) ==
    [success |-> exec[e].success,
     failedPaymentId |-> exec[e].failedPaymentId,
     attemptId |-> exec[e].attemptId,
     attemptNumber |-> exec[e].attemptNumber,
     nextRetryAt |-> IF exec[e].success THEN NULL ELSE NextRetryAt(e)]

\* failure: schedule the next attempt, or pause the payment when the schedule
\* is exhausted; the call returns
ExNext(e) ==
    /\ exec[e].pc = "ex_next"
    /\ LET nextAttemptNumber == exec[e].attemptNumber + 1
           nextRetryAt == NextRetryAt(e)
       IN IF nextRetryAt # NULL
          THEN /\ Len(retryAttempts) < MaxAttempts
               /\ retryAttempts' = Append(retryAttempts,
                      NewAttempt(exec[e].failedPaymentId, nextAttemptNumber,
                                 nextRetryAt, "schedule"))
               /\ UNCHANGED failedPayments
          ELSE /\ failedPayments' = [failedPayments EXCEPT
                      ![exec[e].failedPaymentId].status = "paused"]
               /\ UNCHANGED retryAttempts
    /\ exec' = [exec EXCEPT ![e] = ExecIdle]
    /\ UNCHANGED <<now, wh, req, queue, scan, chargeCalls, dvars>>

Execute(e) ==
    \/ ExFetch(e)
    \/ ExMark(e)
    \/ ExNumber(e)
    \/ \E answer \in GatewayAnswers : ExCall(e, answer)
    \/ ExSuccess(e)
    \/ ExRecover(e)
    \/ ExSkip(e)
    \/ ExFailed(e)
    \/ ExNext(e)

Worker(e) == WorkerTake(e) \/ Execute(e)

\* ------------------------------ executeRetryAttempt, one call on its own
\* What a call of executeRetryAttempt that no other handler interleaves with
\* makes of the store: the tables after it, whether it threw, and the
\* RetryResult it returned.

\* webExecuteRetryAttempt without the update of the failed_payments row
webExecuteRetryAttemptRowsOnly(failedPaymentId, attemptId, answer) ==
    IF PreconditionFails(failedPaymentId)
    THEN [raised |-> TRUE, failedPayments |-> failedPayments,
          retryAttempts |-> retryAttempts, result |-> <<>>]
    ELSE LET attemptNumber == IF attemptId \in AttemptIds
                              THEN retryAttempts[attemptId].attemptNumber ELSE 1
             nextRetryAt == calculateNextRetryAt(
                                failedPayments[failedPaymentId].recoveryStartedAt,
                                attemptNumber + 1)
         IN [raised |-> answer = "network_error",
             failedPayments |-> failedPayments,
             retryAttempts |->
                IF answer = "network_error" THEN retryAttempts
                ELSE IF answer = "ok"
                THEN SkipPending(SetAttempt(attemptId, "success"), failedPaymentId)
                ELSE SetAttempt(attemptId, "failed"),
             result |-> <<>>]

\* the worker's executeRetryAttempt (retry-executor)
workerExecuteRetryAttempt(failedPaymentId, attemptId, answer) ==
    \* 1-2. fetch the payment and its connection, decrypt the token
    IF PreconditionFails(failedPaymentId)
    THEN [raised |-> TRUE, failedPayments |-> failedPayments,
          retryAttempts |-> retryAttempts, result |-> <<>>]
    ELSE
    LET payment == failedPayments[failedPaymentId]
        \* 3. mark the attempt as in progress
        marked == [a \in AttemptIds |->
                      IF a = attemptId THEN [retryAttempts[a] EXCEPT !.attemptedAt = now]
                      ELSE retryAttempts[a]]
        \* 4. fetch the attempt number
        attemptNumber == IF attemptId \in AttemptIds THEN marked[attemptId].attemptNumber ELSE 1
        \* the update of the attempt row on either path
        updated(status) ==
            [a \in AttemptIds |->
                IF a = attemptId THEN [marked[a] EXCEPT !.status = status, !.attemptedAt = now]
                ELSE marked[a]]
        nextAttemptNumber == attemptNumber + 1
        nextRetryAt == IF payment.recoveryStartedAt # NULL
                       THEN calculateNextRetryAt(payment.recoveryStartedAt, nextAttemptNumber)
                       ELSE NULL
    IN  \* 5. call Stripe
        IF answer = "network_error"
        THEN [raised |-> TRUE, failedPayments |-> failedPayments,
              retryAttempts |-> marked, result |-> <<>>]
        ELSE IF answer = "ok"
        THEN [raised |-> FALSE,
              failedPayments |-> [failedPayments EXCEPT
                                     ![failedPaymentId].status = "recovered",
                                     ![failedPaymentId].recoveredAt = now],
              retryAttempts |-> SkipPending(updated("success"), failedPaymentId),
              result |-> [success |-> TRUE, failedPaymentId |-> failedPaymentId,
                          attemptId |-> attemptId, attemptNumber |-> attemptNumber,
                          nextRetryAt |-> NULL]]
        ELSE [raised |-> FALSE,
              failedPayments |-> IF nextRetryAt # NULL THEN failedPayments
                                 ELSE [failedPayments EXCEPT
                                          ![failedPaymentId].status = "paused"],
              retryAttempts |-> IF nextRetryAt # NULL
                                THEN Append(updated("failed"),
                                            NewAttempt(failedPaymentId, nextAttemptNumber,
                                                       nextRetryAt, "schedule"))
                                ELSE updated("failed"),
              result |-> [success |-> FALSE, failedPaymentId |-> failedPaymentId,
                          attemptId |-> attemptId, attemptNumber |-> attemptNumber,
                          nextRetryAt |-> nextRetryAt]]

\* the web library's executeRetryAttempt (retry-logic)
webExecuteRetryAttempt(failedPaymentId, attemptId, answer) ==
    \* 1-2. fetch the payment, fetch and decrypt the access token
    IF PreconditionFails(failedPaymentId)
    THEN [raised |-> TRUE, failedPayments |-> failedPayments,
          retryAttempts |-> retryAttempts, result |-> <<>>]
    ELSE
    LET payment == failedPayments[failedPaymentId]
        \* 3. mark the attempt as attempted
        marked == [a \in AttemptIds |->
                      IF a = attemptId THEN [retryAttempts[a] EXCEPT !.attemptedAt = now]
                      ELSE retryAttempts[a]]
    IN  \* 4. call the Stripe API
        IF answer = "network_error"
        THEN [raised |-> TRUE, failedPayments |-> failedPayments,
              retryAttempts |-> marked, result |-> <<>>]
        ELSE
        LET \* the attempt row is read after the call
            attemptNumber == IF attemptId \in AttemptIds
                             THEN marked[attemptId].attemptNumber ELSE 1
        IN IF answer = "ok"
           THEN \* mark the attempt, mark the payment, cancel the pending retries
                LET succeeded == [a \in AttemptIds |->
                                     IF a = attemptId
                                     THEN [marked[a] EXCEPT !.status = "success",
                                                            !.attemptedAt = now]
                                     ELSE marked[a]]
                IN [raised |-> FALSE,
                    failedPayments |-> [failedPayments EXCEPT
                                           ![failedPaymentId].status = "recovered",
                                           ![failedPaymentId].recoveredAt = now],
                    retryAttempts |-> SkipPending(succeeded, failedPaymentId),
                    result |-> [success |-> TRUE, failedPaymentId |-> failedPaymentId,
                                attemptId |-> attemptId, attemptNumber |-> attemptNumber,
                                nextRetryAt |-> NULL]]
           ELSE \* mark the attempt as failed, schedule the next retry or pause
                LET failed == [a \in AttemptIds |->
                                  IF a = attemptId
                                  THEN [marked[a] EXCEPT !.status = "failed",
                                                         !.attemptedAt = now]
                                  ELSE marked[a]]
                    nextAttemptNumber == attemptNumber + 1
                    nextRetryAt == IF payment.recoveryStartedAt # NULL
                                   THEN calculateNextRetryAt(payment.recoveryStartedAt,
                                                             nextAttemptNumber)
                                   ELSE NULL
                IN IF nextRetryAt # NULL
                   THEN [raised |-> FALSE, failedPayments |-> failedPayments,
                         retryAttempts |-> Append(failed,
                             NewAttempt(failedPaymentId, nextAttemptNumber, nextRetryAt,
                                        "schedule")),
                         result |-> [success |-> FALSE, failedPaymentId |-> failedPaymentId,
                                     attemptId |-> attemptId, attemptNumber |-> attemptNumber,
                                     nextRetryAt |-> nextRetryAt]]
                   ELSE [raised |-> FALSE,
                         failedPayments |-> [failedPayments EXCEPT
                                                ![failedPaymentId].status = "paused"],
                         retryAttempts |-> failed,
                         result |-> [success |-> FALSE, failedPaymentId |-> failedPaymentId,
                                     attemptId |-> attemptId, attemptNumber |-> attemptNumber,
                                     nextRetryAt |-> NULL]]

\* one call of each version for the same arguments, from the store as it is,
\* with the same answer of the gateway; the store itself is left as it is,
\* and a behaviour makes one trial
Trial ==
    /\ ~trial.called
    /\ \E failedPaymentId \in CaseIds \cup {0}, attemptId \in AttemptIds \cup {0},
          answer \in GatewayAnswers :
            /\ trial' = [called |-> TRUE, failedPaymentId |-> failedPaymentId,
                         attemptId |-> attemptId, answer |-> answer,
                         worker |-> workerExecuteRetryAttempt(failedPaymentId, attemptId,
                                                              answer),
                         web |-> webExecuteRetryAttempt(failedPaymentId, attemptId, answer)]
            /\ UNCHANGED <<now, failedPayments, retryAttempts, wh, req, queue, exec, scan,
                           chargeCalls, dunning, post, schedules, boot, rendering>>

\* --------------------------------------------------- manual-retry route
ReqIdle == [pc |-> "idle", failedPaymentId |-> NULL, attemptNumber |-> NULL,
            attemptId |-> NULL, response |-> NULL]

UnknownCase == 0

Respond(r, id, code) ==
    [req[r] EXCEPT !.pc = "done", !.failedPaymentId = id, !.response = code]

\* POST /api/failed-payments/:id/retry, steps 1-3: session, payment, ownership
\* and status.  user = "none" is a request without a session.
RouteLoad(r, user, id) ==
    /\ req[r].pc = "idle"
    /\ req' = [req EXCEPT ![r] =
           IF user = "none" THEN Respond(r, id, 401)
           ELSE IF id \notin CaseIds THEN Respond(r, id, 404)
           ELSE IF failedPayments[id].userId # user THEN Respond(r, id, 403)
           ELSE IF failedPayments[id].status # "active" THEN Respond(r, id, 409)
           ELSE [ReqIdle EXCEPT !.pc = "rate", !.failedPaymentId = id]]
    /\ UNCHANGED <<now, failedPayments, retryAttempts, wh, queue, exec, scan, chargeCalls, dvars>>

\* step 4: count(*) of the payment's attempts with scheduledAt >= now - 24h
RecentAttempts(fp) ==
    Cardinality({a \in AttemptsOf(fp) : retryAttempts[a].scheduledAt >= now - 1})

RouteRateLimit(r) ==
    /\ req[r].pc = "rate"
    /\ req' = [req EXCEPT ![r] =
           IF RecentAttempts(req[r].failedPaymentId) >= MAX_MANUAL_RETRIES_PER_DAY
           THEN Respond(r, req[r].failedPaymentId, 429)
           ELSE [@ EXCEPT !.pc = "count"]]
    /\ UNCHANGED <<now, failedPayments, retryAttempts, wh, queue, exec, scan, chargeCalls, dvars>>

\* step 5: next attempt number = count(*) of the payment's attempts + 1
RouteCount(r) ==
    /\ req[r].pc = "count"
    /\ req' = [req EXCEPT ![r].pc = "insert",
                          ![r].attemptNumber = Cardinality(AttemptsOf(req[r].failedPaymentId)) + 1]
    /\ UNCHANGED <<now, failedPayments, retryAttempts, wh, queue, exec, scan, chargeCalls, dvars>>

\* step 6: create the retry_attempts record (pending, scheduledAt = now)
RouteInsert(r) ==
    /\ req[r].pc = "insert"
    /\ Len(retryAttempts) < MaxAttempts
    /\ retryAttempts' = Append(retryAttempts,
           NewAttempt(req[r].failedPaymentId, req[r].attemptNumber, now, "manual"))
    /\ req' = [req EXCEPT ![r].pc = "enqueue", ![r].attemptId = Len(retryAttempts) + 1]
    /\ UNCHANGED <<now, failedPayments, wh, queue, exec, scan, chargeCalls, dvars>>

\* step 7: enqueue the high-priority retry-job under the id
\* manual-retry:<failedPaymentId>:<attemptId>
RouteEnqueue(r) ==
    /\ req[r].pc = "enqueue"
    /\ QueueSize < MaxQueue
    /\ queue' = QueueAdd(queue, Job(req[r].failedPaymentId, req[r].attemptId,
                                    req[r].attemptNumber,
                                    <<req[r].failedPaymentId, req[r].attemptId>>))
    /\ req' = [req EXCEPT ![r] = Respond(r, req[r].failedPaymentId, 200)]
    /\ UNCHANGED <<now, failedPayments, retryAttempts, wh, exec, scan, chargeCalls, dvars>>

\* the response has been sent
RouteDone(r) ==
    /\ req[r].pc = "done"
    /\ req' = [req EXCEPT ![r] = ReqIdle]
    /\ UNCHANGED <<now, failedPayments, retryAttempts, wh, queue, exec, scan, chargeCalls, dvars>>

Route(r) ==
    \/ \E user \in Users \cup {"none"}, id \in CaseIds \cup {UnknownCase} : RouteLoad(r, user, id)
    \/ RouteRateLimit(r)
    \/ RouteCount(r)
    \/ RouteInsert(r)
    \/ RouteEnqueue(r)
    \/ RouteDone(r)

\* ------------------------------------------- retry-logic library: manualRetry
\* the highest attemptNumber of the payment (orderBy desc, limit 1), 0 if none
LastAttemptNumber(fp) ==
    IF AttemptsOf(fp) = {} THEN 0
    ELSE CHOOSE n \in {retryAttempts[a].attemptNumber : a \in AttemptsOf(fp)} :
             \A a \in AttemptsOf(fp) : retryAttempts[a].attemptNumber <= n

\* manualRetry: ownership check, status check; the payment and its last
\* attempt are read by one query
ManualRetryLoad(user, id) ==
    /\ exec[LibSlot].pc = "idle"
    /\ id \in CaseIds
    /\ failedPayments[id].userId = user
    /\ failedPayments[id].status # "recovered"
    /\ exec' = [exec EXCEPT ![LibSlot] =
           [ExecIdle EXCEPT !.pc = IF failedPayments[id].status = "paused"
                                   THEN "mr_reactivate" ELSE "mr_insert",
                            !.failedPaymentId = id,
                            !.attemptNumber = LastAttemptNumber(id) + 1]]
    /\ UNCHANGED <<now, failedPayments, retryAttempts, wh, req, queue, scan, chargeCalls, dvars>>

\* manualRetry: re-activate if paused
ManualRetryReactivate ==
    /\ exec[LibSlot].pc = "mr_reactivate"
    /\ failedPayments' = [failedPayments EXCEPT ![exec[LibSlot].failedPaymentId].status = "active"]
    /\ exec' = [exec EXCEPT ![LibSlot].pc = "mr_insert"]
    /\ UNCHANGED <<now, retryAttempts, wh, req, queue, scan, chargeCalls, dvars>>

\* manualRetry: create an immediate retry attempt and execute it
ManualRetryInsert ==
    /\ exec[LibSlot].pc = "mr_insert"
    /\ Len(retryAttempts) < MaxAttempts
    /\ retryAttempts' = Append(retryAttempts,
           NewAttempt(exec[LibSlot].failedPaymentId, exec[LibSlot].attemptNumber, now, "manual"))
    /\ exec' = [exec EXCEPT ![LibSlot].pc = "ex_fetch",
                            ![LibSlot].attemptId = Len(retryAttempts) + 1,
                            ![LibSlot].attemptNumber = NULL]
    /\ UNCHANGED <<now, failedPayments, wh, req, queue, scan, chargeCalls, dvars>>

ManualRetry ==
    \/ \E user \in Users, id \in CaseIds : ManualRetryLoad(user, id)
    \/ ManualRetryReactivate
    \/ ManualRetryInsert
    \/ Execute(LibSlot)


\* ------------------------------------------------------------- dunning
\* dunning_templates is static here: two active templates of u1, in sequence
\* order, the template id being the index.  The payments of the model all
\* carry a customer email.
dunningTemplates ==
    <<[userId |-> "u1", delayDays |-> 1, sequenceOrder |-> 1],
      [userId |-> "u1", delayDays |-> 2, sequenceOrder |-> 2]>>

TemplateIds == 1..Len(dunningTemplates)
EmailIds == 1..Len(dunningEmails)
DUNNING_JOB_ATTEMPTS == 3

\* sendAfter: payment.createdAt + template.delayDays
SendAfter(createdAt, t) == createdAt + dunningTemplates[t].delayDays

\* SentTemplateIds counting the rows of status sent only
SentTemplateIdsDelivered(fp) ==
    {dunningEmails[m].templateId :
        m \in {k \in EmailIds : /\ dunningEmails[k].failedPaymentId = fp
                                /\ dunningEmails[k].status = "sent"}}

\* the templates that have a dunning_emails row for the payment, of any status
SentTemplateIds(fp) ==
    {dunningEmails[m].templateId : m \in {k \in EmailIds : dunningEmails[k].failedPaymentId = fp}}

\* the owner's templates without a row for the payment whose delay has passed
UnsentDue(fp) ==
    {t \in TemplateIds :
        /\ dunningTemplates[t].userId = failedPayments[fp].userId
        /\ t \notin SentTemplateIds(fp)
        /\ now >= SendAfter(failedPayments[fp].createdAt, t)}

\* a dunning-email job as BullMQ keeps it; its jobId is
\* dunning:<failedPaymentId>:seq<sequenceOrder>.  Finished jobs stay known to
\* the queue (removeOnComplete / removeOnFail keep the latest ones).
DunningJob(fp, t, runAt) ==
    [failedPaymentId |-> fp, templateId |-> t,
     sequenceOrder |-> dunningTemplates[t].sequenceOrder,
     runAt |-> runAt, attemptsMade |-> 0, state |-> "waiting"]

\* dunningQueue.add with a jobId: ignored when the queue knows the id
DunningQueueAdd(jobs, job) ==
    IF \E j \in jobs : /\ j.failedPaymentId = job.failedPaymentId
                       /\ j.sequenceOrder = job.sequenceOrder
    THEN jobs
    ELSE jobs \cup {job}

DscanIdle == [pc |-> "idle", payments |-> {}, due |-> {}]
DexecIdle == [pc |-> "idle", job |-> NULL, payment |-> NULL, email |-> NULL]

InitDunning ==
    /\ dunningEmails = <<>>
    /\ dunningJobs = {}
    /\ dexec = DexecIdle
    /\ dscan = DscanIdle
    /\ overdue = {}

\* fetchDueDunningEmails: select the active failed payments, .limit(batchSize).
\* The query has no ORDER BY, so which rows fill the limit is the database's
\* choice.
DsFetch ==
    /\ dscan.pc = "idle"
    /\ LET active == {c \in CaseIds : failedPayments[c].status = "active"} IN
         \E batch \in SUBSET active :
            /\ Cardinality(batch) = IF Cardinality(active) < batchSize
                                     THEN Cardinality(active) ELSE batchSize
            /\ dscan' = [pc |-> "due", due |-> {}, payments |-> batch]
    /\ UNCHANGED <<now, failedPayments, rvars, dunningEmails, dunningJobs, dexec, overdue>>

\* fetchDueDunningEmails, per payment: the first template in sequence that has
\* no row yet and is due
FirstDue(fp) ==
    {t \in UnsentDue(fp) :
        \A u \in UnsentDue(fp) :
            dunningTemplates[t].sequenceOrder <= dunningTemplates[u].sequenceOrder}

\* fetchDueDunningEmails: read templates and dunning_emails of each payment;
\* processDunningScan returns when nothing is due
DsDue ==
    /\ dscan.pc = "due"
    /\ LET due == {<<c, t>> \in dscan.payments \X TemplateIds : t \in FirstDue(c)} IN
         dscan' = IF due = {} THEN DscanIdle
                  ELSE [pc |-> "enqueue", payments |-> {}, due |-> due]
    /\ overdue' = {<<c, t>> \in dscan.payments \X TemplateIds : t \in UnsentDue(c)}
    /\ dunningEmails' = [m \in EmailIds |-> [dunningEmails[m] EXCEPT !.sinceScan = FALSE]]
    /\ UNCHANGED <<now, failedPayments, rvars, dunningJobs, dexec>>

RECURSIVE AddAll(_, _)
AddAll(jobs, due) ==
    IF due = {} THEN jobs
    ELSE LET d == CHOOSE x \in due : TRUE IN
           AddAll(DunningQueueAdd(jobs, DunningJob(d[1], d[2], now)), due \ {d})

\* processDunningScan: dunningQueue.addBulk, one job per due email
DsEnqueue ==
    /\ dscan.pc = "enqueue"
    /\ dunningJobs' = AddAll(dunningJobs, dscan.due)
    /\ dscan' = DscanIdle
    /\ UNCHANGED <<now, failedPayments, rvars, dunningEmails, dexec, overdue>>

DunningScan == DsFetch \/ DsDue \/ DsEnqueue

\* the dunning worker takes a job that is waiting and whose delay has passed
DwTake ==
    /\ dexec.pc = "idle"
    /\ \E j \in dunningJobs :
         /\ j.state = "waiting"
         /\ j.runAt <= now
         /\ dunningJobs' = (dunningJobs \ {j}) \cup {[j EXCEPT !.state = "active"]}
         /\ dexec' = [DexecIdle EXCEPT !.pc = "de_load", !.job = j]
    /\ UNCHANGED <<now, failedPayments, rvars, dunningEmails, dscan, overdue>>

ActiveJob == [dexec.job EXCEPT !.state = "active"]

\* processDunningEmail ends: result.success completes the job; otherwise it
\* throws and the job framework retries the job while attempts are left
JobsAfter(jobs, success) ==
    (jobs \ {ActiveJob}) \cup
       {IF success THEN [dexec.job EXCEPT !.state = "completed"]
        ELSE IF dexec.job.attemptsMade + 1 < DUNNING_JOB_ATTEMPTS
        THEN [dexec.job EXCEPT !.attemptsMade = @ + 1, !.runAt = now]
        ELSE [dexec.job EXCEPT !.attemptsMade = @ + 1, !.state = "failed"]}

\* DeLoad without the status check
DeLoadAnyStatus ==
    /\ dexec.pc = "de_load"
    /\ LET fp == dexec.job.failedPaymentId IN
         IF fp \notin CaseIds
         THEN /\ dexec' = DexecIdle
              /\ dunningJobs' = JobsAfter(dunningJobs, FALSE)
         ELSE /\ dexec' = [dexec EXCEPT !.pc = "de_insert", !.payment = failedPayments[fp]]
              /\ UNCHANGED dunningJobs
    /\ UNCHANGED <<now, failedPayments, rvars, dunningEmails, dscan, overdue>>

\* executeDunningEmail: load the payment (and the template); a payment that is
\* not active makes the call a success without an email
DeLoad ==
    /\ dexec.pc = "de_load"
    /\ LET fp == dexec.job.failedPaymentId IN
         IF fp \notin CaseIds
         THEN /\ dexec' = DexecIdle
              /\ dunningJobs' = JobsAfter(dunningJobs, FALSE)
         ELSE IF failedPayments[fp].status # "active"
         THEN /\ dexec' = DexecIdle
              /\ dunningJobs' = JobsAfter(dunningJobs, TRUE)
         ELSE /\ dexec' = [dexec EXCEPT !.pc = "de_insert", !.payment = failedPayments[fp]]
              /\ UNCHANGED dunningJobs
    /\ UNCHANGED <<now, failedPayments, rvars, dunningEmails, dscan, overdue>>

\* executeDunningEmail: insert the dunning_emails record (pending)
DeInsert ==
    /\ dexec.pc = "de_insert"
    /\ Len(dunningEmails) < MaxEmails
    /\ dunningEmails' = Append(dunningEmails,
           [failedPaymentId |-> dexec.job.failedPaymentId,
            templateId |-> dexec.job.templateId,
            status |-> "pending", createdAt |-> now, sentAt |-> NULL,
            sinceScan |-> TRUE])
    /\ dexec' = [dexec EXCEPT !.pc = "de_send", !.email = Len(dunningEmails) + 1]
    /\ UNCHANGED <<now, failedPayments, rvars, dunningJobs, dscan, overdue>>

\* executeDunningEmail: resend.emails.send answers with data, or with an error
\* (or throws)
DeSend(answer) ==
    /\ dexec.pc = "de_send"
    /\ dexec' = [dexec EXCEPT !.pc = IF answer = "sent" THEN "de_sent" ELSE "de_failed"]
    /\ UNCHANGED <<now, failedPayments, rvars, dunningEmails, dunningJobs, dscan, overdue>>

\* executeDunningEmail: mark the record failed and return the failure
DeMarkFailed ==
    /\ dexec.pc = "de_failed"
    /\ dunningEmails' = [dunningEmails EXCEPT ![dexec.email].status = "failed"]
    /\ dunningJobs' = JobsAfter(dunningJobs, FALSE)
    /\ dexec' = DexecIdle
    /\ UNCHANGED <<now, failedPayments, rvars, dscan, overdue>>

\* executeDunningEmail: mark the record sent
DeMarkSent ==
    /\ dexec.pc = "de_sent"
    /\ dunningEmails' = [dunningEmails EXCEPT ![dexec.email].status = "sent",
                                              ![dexec.email].sentAt = now]
    /\ dexec' = [dexec EXCEPT !.pc = "de_next"]
    /\ UNCHANGED <<now, failedPayments, rvars, dunningJobs, dscan, overdue>>

\* scheduleNextDunningEmail: read the payment's status and createdAt again
DeNext ==
    /\ dexec.pc = "de_next"
    /\ IF failedPayments[dexec.job.failedPaymentId].status # "active"
       THEN /\ dexec' = DexecIdle
            /\ dunningJobs' = JobsAfter(dunningJobs, TRUE)
       ELSE /\ dexec' = [dexec EXCEPT !.pc = "de_enqueue",
                                      !.payment = failedPayments[dexec.job.failedPaymentId]]
            /\ UNCHANGED dunningJobs
    /\ UNCHANGED <<now, failedPayments, rvars, dunningEmails, dscan, overdue>>

\* the owner's next template after sequence step n, NULL when there is none
NextTemplate(userId, n) ==
    LET later == {t \in TemplateIds : /\ dunningTemplates[t].userId = userId
                                      /\ dunningTemplates[t].sequenceOrder > n}
    IN IF later = {} THEN NULL
       ELSE CHOOSE t \in later :
               \A u \in later :
                  dunningTemplates[t].sequenceOrder <= dunningTemplates[u].sequenceOrder

\* RunAt with no delay at all
RunAtOnce(sendAt) == now

\* delayMs = max(0, sendAt - Date.now()): when the delayed job becomes runnable
RunAt(sendAt) == IF sendAt > now THEN sendAt ELSE now

\* scheduleNextDunningEmail: enqueue the next step as a delayed job; the call
\* returns success
DeNextEnqueue ==
    /\ dexec.pc = "de_enqueue"
    /\ LET t == NextTemplate(dexec.payment.userId, dexec.job.sequenceOrder) IN
         dunningJobs' =
            IF t = NULL THEN JobsAfter(dunningJobs, TRUE)
            ELSE JobsAfter(DunningQueueAdd(dunningJobs,
                     DunningJob(dexec.job.failedPaymentId, t,
                                RunAt(SendAfter(dexec.payment.createdAt, t)))), TRUE)
    /\ dexec' = DexecIdle
    /\ UNCHANGED <<now, failedPayments, rvars, dunningEmails, dscan, overdue>>

DunningWorker ==
    \/ DwTake
    \/ DeLoad
    \/ DeInsert
    \/ \E answer \in {"sent", "error"} : DeSend(answer)
    \/ DeMarkFailed
    \/ DeMarkSent
    \/ DeNext
    \/ DeNextEnqueue

\* the dunning worker with a provider that fails sends of the first step only
DunningWorkerStepOneFails ==
    \/ DwTake
    \/ DeLoad
    \/ DeInsert
    \/ /\ dexec.pc = "de_send"
       /\ \E answer \in (IF dexec.job.sequenceOrder = 1 THEN {"sent", "error"} ELSE {"sent"}) :
             DeSend(answer)
    \/ DeMarkFailed
    \/ DeMarkSent
    \/ DeNext
    \/ DeNextEnqueue

\* ------------------------------------------------ Resend delivery events
\* the event types of the Resend webhook; email.delivered stands for every
\* type the handler has no case for
ResendEventTypes ==
    {"email.opened", "email.clicked", "email.bounced", "email.complained", "email.delivered"}

\* POST of the Resend webhook for an event of a message: the dunning_emails
\* row is found by its resendMessageId, which executeDunningEmail writes
\* together with sentAt, and its status is set from the event type alone.  The
\* row's id is all the update takes from the select, so the two queries are
\* one step here.  An event of an unknown message changes nothing.
ResendWebhook(type, m) ==
    /\ m \in EmailIds
    /\ dunningEmails[m].sentAt # NULL
    /\ dunningEmails' =
          IF type = "email.opened"
          THEN [dunningEmails EXCEPT ![m].status = "opened"]
          ELSE IF type = "email.clicked"
          THEN [dunningEmails EXCEPT ![m].status = "clicked"]
          ELSE IF type \in {"email.bounced", "email.complained"}
          THEN [dunningEmails EXCEPT ![m].status = "bounced"]
          ELSE dunningEmails
    /\ UNCHANGED <<now, failedPayments, rvars, dunningJobs, dexec, dscan, overdue>>

\* ----------------------------------------------------------------- claims
AutomaticAttempts(fp) ==
    {a \in AttemptsOf(fp) : retryAttempts[a].origin \in {"webhook", "schedule"}}

ManualAttempts(fp) == {a \in AttemptsOf(fp) : retryAttempts[a].origin = "manual"}

\* C1: at most one failed_payments row exists for each (stripe connection,
\* stripe invoice id) pair, whatever the interleaving of payment_failed
\* deliveries.
C1_OneCasePerInvoice ==
    \A c, d \in CaseIds :
        ( /\ failedPayments[c].stripeConnectionId = failedPayments[d].stripeConnectionId
          /\ failedPayments[c].stripeInvoiceId = failedPayments[d].stripeInvoiceId )
        => c = d

\* C2: handlePaymentSucceeded, for an invoice whose payment is active, sets the
\* payment to recovered with recoveredAt set, then turns every attempt of the
\* payment that is pending into skipped; a delivery that finds no active payment
\* for the invoice ends without any update.
C2_SucceededRecovers ==
    [][\A h \in WebhookSlots :
          /\ ( /\ wh[h].pc = "ps_find" /\ wh'[h] # wh[h]
                /\ ActiveCases(wh[h].conn, wh[h].invoice) = {} )
                => (wh'[h].pc = "idle" /\ UNCHANGED <<failedPayments, retryAttempts>>)
          /\ (wh[h].pc = "ps_find" /\ wh'[h].pc = "ps_update")
                => failedPayments[wh'[h].fp].status = "active"
          /\ (wh[h].pc = "ps_update" /\ wh'[h].pc = "ps_skip")
                => /\ failedPayments'[wh[h].fp].status = "recovered"
                   /\ failedPayments'[wh[h].fp].recoveredAt # NULL
          /\ (wh[h].pc = "ps_skip" /\ wh'[h].pc = "idle")
                => /\ \A a \in AttemptsOf(wh[h].fp) :
                         /\ retryAttempts[a].status = "pending"
                                => retryAttempts'[a].status = "skipped"
                         /\ retryAttempts[a].status # "pending"
                                => retryAttempts'[a] = retryAttempts[a]
                   /\ Len(retryAttempts') = Len(retryAttempts)
      ]_vars

\* a payment the webhook has recovered (no charge was ever issued) with its
\* attempt skipped and the handler finished
C2_Witness ==
    /\ chargeCalls.once = {}
    /\ wh[1].pc = "idle"
    /\ \E c \in CaseIds :
          /\ failedPayments[c].status = "recovered"
          /\ failedPayments[c].recoveredAt # NULL
          /\ \E a \in AttemptsOf(c) : retryAttempts[a].status = "skipped"

\* C3: no gateway charge call is issued for a payment whose status is recovered.
C3_NoChargeOnceRecovered ==
    [][\A e \in DOMAIN exec :
          (exec[e].pc = "ex_call" /\ exec'[e].pc # "ex_call")
             => failedPayments[exec[e].failedPaymentId].status # "recovered"
      ]_vars

\* C4: the attempt numbers of each payment's retry_attempts rows are exactly
\* 1..k, with no gap and no repeated number.
C4_ContiguousNumbers ==
    \A c \in CaseIds :
        /\ {retryAttempts[a].attemptNumber : a \in AttemptsOf(c)}
              = 1..Cardinality(AttemptsOf(c))
        /\ \A a, b \in AttemptsOf(c) :
              retryAttempts[a].attemptNumber = retryAttempts[b].attemptNumber => a = b

\* C5: no retry_attempts row has two charge calls answered by the gateway.
C5_AttemptChargedOnce == chargeCalls.again = {}

\* C6: an automatically created attempt numbered n in 1..3 is scheduled at
\* recoveryStartedAt + RETRY_SCHEDULE_DAYS[n], attempt #1 of the webhook included.
C6_FixedSchedule ==
    \A a \in AttemptIds :
        ( /\ retryAttempts[a].origin \in {"webhook", "schedule"}
          /\ retryAttempts[a].attemptNumber \in 1..MAX_ATTEMPTS )
        => retryAttempts[a].scheduledAt
              = failedPayments[retryAttempts[a].failedPaymentId].recoveryStartedAt
                + RETRY_SCHEDULE_DAYS[retryAttempts[a].attemptNumber]

\* C7: however often the decline path runs for one attempt, at most one
\* retry_attempts row exists per (payment, attempt number).
C7_OneRowPerNumber ==
    \A a, b \in AttemptIds :
        ( /\ retryAttempts[a].failedPaymentId = retryAttempts[b].failedPaymentId
          /\ retryAttempts[a].attemptNumber = retryAttempts[b].attemptNumber )
        => a = b

\* C8: in every reachable state a payment has at most 3 automatically
\* created attempts.
C8_AtMostThreeAutomatic ==
    \A c \in CaseIds : Cardinality(AutomaticAttempts(c)) <= MAX_ATTEMPTS

\* C9: a manual-retry request for a paused payment is not turned away with 409.
C9_PausedRetryAccepted ==
    [][\A r \in RequestSlots :
          ( /\ req[r].pc = "idle"
            /\ req'[r].pc = "done"
            /\ req'[r].failedPaymentId \in CaseIds
            /\ failedPayments[req'[r].failedPaymentId].status = "paused" )
          => req'[r].response # 409
      ]_vars

\* C10: a payment has at most 3 manually scheduled attempts within the
\* trailing 24 hours, and a request answered 429 has inserted no attempt.
C10_ManualRetryCap ==
    /\ \A c \in CaseIds :
          Cardinality({a \in ManualAttempts(c) : retryAttempts[a].scheduledAt >= now - 1})
             <= MAX_MANUAL_RETRIES_PER_DAY
    /\ \A r \in RequestSlots : req[r].response = 429 => req[r].attemptId = NULL

\* C11: a manual-retry request for an active, owned payment with fewer than 3
\* manually scheduled attempts in the trailing 24 hours is not answered 429,
\* whatever automatically scheduled attempts the payment has.
C11_CapCountsManualOnly ==
    [][\A r \in RequestSlots :
          ( /\ req[r].pc = "rate"
            /\ req'[r].pc = "done"
            /\ Cardinality({a \in ManualAttempts(req[r].failedPaymentId) :
                               retryAttempts[a].scheduledAt >= now - 1})
                  < MAX_MANUAL_RETRIES_PER_DAY )
          => req'[r].response # 429
      ]_vars

\* C12: a payment whose status is recovered keeps that status and keeps
\* recoveredAt set, in every step of every handler.
C12_RecoveredIsTerminal ==
    [][\A c \in CaseIds :
          failedPayments[c].status = "recovered"
             => /\ failedPayments'[c].status = "recovered"
                /\ failedPayments'[c].recoveredAt # NULL
      ]_vars

\* C13: a payment is paused only if its automatic attempts #1, #2 and #3 have
\* all failed.
C13_PausedOnlyByExhaustion ==
    \A c \in CaseIds :
        failedPayments[c].status = "paused"
           => \A n \in 1..MAX_ATTEMPTS :
                 \E a \in AutomaticAttempts(c) :
                    /\ retryAttempts[a].attemptNumber = n
                    /\ retryAttempts[a].status = "failed"

\* C14: a payment has at most one retry_attempts row with status pending.
C14_OnePendingAttempt ==
    \A c \in CaseIds :
        Cardinality({a \in AttemptsOf(c) : retryAttempts[a].status = "pending"}) <= 1


\* C15: after the gateway call ended in a transport failure (HTTP 5xx or a
\* network error) the call changes no attempt status and no payment status and
\* inserts no attempt.
C15_TransportFailureKeepsState ==
    [][\A e \in DOMAIN exec :
          ( /\ exec[e].pc \notin {"idle", "ex_call"}
            /\ exec[e].answer \in {"http_5xx", "network_error"}
            /\ exec'[e] # exec[e] )
          => /\ Len(retryAttempts') = Len(retryAttempts)
             /\ \A a \in AttemptIds : retryAttempts'[a].status = retryAttempts[a].status
             /\ \A c \in CaseIds : failedPayments'[c].status = failedPayments[c].status
      ]_vars

\* C16: executeRetryAttempt called for a payment that does not exist, is not
\* active, has no stripeInvoiceId or has no usable connection ends by throwing
\* in its first step: no charge call is made and no row changes, attemptedAt
\* included.
C16_PreconditionFailureThrows ==
    [][\A e \in DOMAIN exec :
          ( /\ exec[e].pc = "ex_fetch"
            /\ exec'[e] # exec[e]
            /\ PreconditionFails(exec[e].failedPaymentId) )
          => /\ exec'[e].pc = "idle"
             /\ UNCHANGED <<failedPayments, retryAttempts, chargeCalls>>
      ]_vars

\* a retry-job that was thrown out for a payment that is not active and came
\* back to the queue, without any charge call and without a stamp on the row
C16_Witness ==
    /\ chargeCalls.once = {}
    /\ \E j \in BagToSet(queue) :
          /\ j.attemptsMade > 0
          /\ j.failedPaymentId \in CaseIds
          /\ failedPayments[j.failedPaymentId].status = "paused"
          /\ retryAttempts[j.attemptId].attemptedAt = NULL


\* C17: no dunning_emails row of a (payment, template) pair is created, and
\* none is sent, before the payment's createdAt + the template's delayDays.
C17_NoEmailBeforeDue ==
    \A m \in EmailIds :
        LET sendAfter == SendAfter(failedPayments[dunningEmails[m].failedPaymentId].createdAt,
                                   dunningEmails[m].templateId)
        IN /\ dunningEmails[m].createdAt >= sendAfter
           /\ dunningEmails[m].sentAt # NULL => dunningEmails[m].sentAt >= sendAfter

\* step 1 sent on the day it fell due, and step 2 created and sent on the day it
\* fell due in its turn
C17_Witness ==
    /\ \E m \in EmailIds : /\ dunningEmails[m].templateId = 1
                            /\ dunningEmails[m].status = "sent"
                            /\ dunningEmails[m].sentAt = 1
    /\ \E m \in EmailIds : /\ dunningEmails[m].templateId = 2
                            /\ dunningEmails[m].status = "sent"
                            /\ dunningEmails[m].createdAt = 2
    /\ \E j \in dunningJobs : j.sequenceOrder = 2 /\ j.state = "completed" /\ j.runAt = 2

\* C18: of the steps of one payment that were overdue together when a dunning
\* scan ran, at most one has a new dunning_emails row before the next scan.
C18_OneStepPerScan ==
    \A c \in CaseIds :
        Cardinality({dunningEmails[m].templateId :
                        m \in {k \in EmailIds : /\ dunningEmails[k].failedPaymentId = c
                                                /\ dunningEmails[k].sinceScan
                                                /\ <<c, dunningEmails[k].templateId>> \in overdue}})
           <= 1

\* C19: at most one dunning_emails row exists per (payment, template) pair.
C19_OneEmailPerTemplate ==
    \A m, k \in EmailIds :
        ( /\ dunningEmails[m].failedPaymentId = dunningEmails[k].failedPaymentId
          /\ dunningEmails[m].templateId = dunningEmails[k].templateId )
        => m = k

C21_AscendingSequenceOrder ==
    \A m, k \in EmailIds :
        ( /\ m < k
          /\ dunningEmails[m].failedPaymentId = dunningEmails[k].failedPaymentId )
        => dunningTemplates[dunningEmails[m].templateId].sequenceOrder
              < dunningTemplates[dunningEmails[k].templateId].sequenceOrder


C28_SuccessRecovers ==
    [][\A e \in DOMAIN exec :
          LET fp == exec[e].failedPaymentId
              a == exec[e].attemptId
          IN
          /\ (exec[e].pc = "ex_call" /\ exec'[e].pc = "ex_success") => exec'[e].answer = "ok"
          /\ (exec[e].pc = "ex_success" /\ exec'[e].pc = "ex_recover")
                => retryAttempts'[a].status = "success"
          /\ (exec[e].pc = "ex_recover" /\ exec'[e].pc = "ex_skip")
                => /\ failedPayments'[fp].status = "recovered"
                   /\ failedPayments'[fp].recoveredAt # NULL
          /\ (exec[e].pc = "ex_skip" /\ exec'[e].pc = "idle")
                => /\ retryAttempts'[a].status = "success"
                   /\ failedPayments'[fp].status = "recovered"
                   /\ failedPayments'[fp].recoveredAt # NULL
                   /\ \A b \in AttemptsOf(fp) :
                         /\ retryAttempts'[b].status # "pending"
                         /\ retryAttempts[b].status = "pending"
                               => retryAttempts'[b].status = "skipped"
                         /\ retryAttempts[b].status # "pending"
                               => retryAttempts'[b] = retryAttempts[b]
      ]_vars


\* C29: when the gateway declines the charge of attempt n, executeRetryAttempt
\* sets the attempt to failed and records the gateway's decline code on the
\* row; then, if n + 1 <= 3, it inserts attempt n + 1 as pending at
\* recoveryStartedAt + RETRY_SCHEDULE_DAYS[n + 1] and leaves the payment alone,
\* and otherwise it inserts nothing and sets the payment to paused.
C29_DeclineSchedulesNext ==
    [][\A e \in DOMAIN exec :
          LET fp == exec[e].failedPaymentId
              a == exec[e].attemptId
              n == exec[e].attemptNumber
          IN
          /\ ( /\ exec[e].pc = "ex_failed" /\ exec'[e].pc = "ex_next"
               /\ exec[e].answer = "declined" )
                => /\ retryAttempts'[a].status = "failed"
                   /\ retryAttempts'[a].stripeErrorCode # NULL
          /\ ( /\ exec[e].pc = "ex_next" /\ exec'[e].pc = "idle"
               /\ exec[e].answer = "declined" )
                => IF n + 1 <= MAX_ATTEMPTS
                   THEN /\ Len(retryAttempts') = Len(retryAttempts) + 1
                        /\ retryAttempts'[Len(retryAttempts')] =
                              NewAttempt(fp, n + 1,
                                  exec[e].payment.recoveryStartedAt
                                     + RETRY_SCHEDULE_DAYS[n + 1], "schedule")
                        /\ UNCHANGED failedPayments
                   ELSE /\ UNCHANGED retryAttempts
                        /\ failedPayments'[fp].status = "paused"
      ]_vars


\* C30: no retry_attempts row is inserted for a payment whose status is
\* recovered.
C30_NoAttemptOnceRecovered ==
    [][\A c \in CaseIds :
          failedPayments[c].status = "recovered"
             => {a \in 1..Len(retryAttempts') : retryAttempts'[a].failedPaymentId = c}
                   = AttemptsOf(c)
      ]_vars


\* C24: no step moves the status of a dunning_emails row from a delivery
\* status to a lower one in the order sent < opened < clicked < bounced.
C24_DeliveryStatusMonotonic ==
    [][LET rank == [status \in {"pending", "failed", "sent", "opened", "clicked", "bounced"} |->
                    CASE status = "sent" -> 1
                      [] status = "opened" -> 2
                      [] status = "clicked" -> 3
                      [] status = "bounced" -> 4
                      [] OTHER -> 0]
    IN \A m \in EmailIds :
          rank[dunningEmails[m].status] <= rank[dunningEmails'[m].status]
      ]_vars

\* C25: however many calls of upsertScheduledJobs have run or are running,
\* each queue has at most one repeatable scan, and when a call returns the
\* retry-queue has exactly one repeatable batch-scan and the dunning-queue has
\* exactly one repeatable dunning-scan.
C25_OneScheduleEach ==
    [][LET repeatOf(q) == {k \in schedules'.repeat : k.queue = q} IN
          /\ Cardinality(repeatOf("retry-queue")) <= 1
          /\ Cardinality(repeatOf("dunning-queue")) <= 1
          /\ \A p \in WorkerProcesses :
                (boot[p].pc = "dunning_startup" /\ boot'[p].pc = "idle")
                   => /\ \E k \in repeatOf("retry-queue") :
                            k.name = "batch-scan" /\ k.every = SCAN_INTERVAL_MS
                      /\ \E k \in repeatOf("dunning-queue") :
                            k.name = "dunning-scan" /\ k.every = DUNNING_SCAN_INTERVAL_MS
      ]_vars

\* both worker processes have run upsertScheduledJobs, at different times, one
\* of them twice
C25_Witness ==
    /\ now > 0
    /\ boot[1].runs >= 2 /\ boot[2].runs >= 1
    /\ boot[1].pc = "idle" /\ boot[2].pc = "idle"
    /\ Cardinality(schedules.repeat) = 2


\* C22: with the webhook secret configured, a request to the webhook endpoint
\* whose signature header is missing, malformed (no timestamp or no v1
\* element), stale, or without a v1 element equal to the digest, is answered
\* 400 and changes no state; every other request is answered 200, also when
\* its handler throws.
C22_EndpointAnswers ==
    [][\A h \in WebhookSlots :
          LET header == post'.sigHeader
              rejected ==
                 \/ ~header.present
                 \/ ~header.t.given \/ header.v1 = <<>>
                 \/ header.t.number /\ header.t.skew > TOLERANCE_SECONDS
                 \/ header.t.number /\ 0 - header.t.skew > TOLERANCE_SECONDS
                 \/ \A i \in 1..Len(header.v1) : header.v1[i] # ExpectedSignature
          IN
          /\ (post' # post /\ rejected /\ post'.secret)
                => /\ post'.response = 400
                   /\ UNCHANGED <<wh, failedPayments, retryAttempts, queue, dunning>>
          /\ (post' # post /\ ~rejected /\ post'.secret) => post'.response = 200
          /\ (wh[h].pc # "idle" /\ wh'[h].pc = "idle") => post'.response = 200
      ]_vars

\* C26: verifyStripeSignature rejects every header whose timestamp lies more
\* than 300 seconds before or after the server's clock, whatever its v1
\* elements; for a timestamp within 300 seconds it accepts exactly when some
\* v1 element equals the digest.
C26_SignatureExact ==
    LET header == post.sigHeader IN
    (header.present /\ post.secret /\ header.t.given /\ header.t.number)
       => IF \/ header.t.skew > TOLERANCE_SECONDS
             \/ 0 - header.t.skew > TOLERANCE_SECONDS
          THEN post.response = 400
          ELSE post.response = 200
                  <=> \E i \in 1..Len(header.v1) : header.v1[i] = ExpectedSignature


C31_CaseHasFirstAttempt ==
    (\A h \in WebhookSlots : wh[h].pc = "idle") =>
        \A c \in CaseIds :
            failedPayments[c].status = "active" =>
                \E a \in AttemptsOf(c) : retryAttempts[a].attemptNumber = 1

\* the case's three automatic attempts have all failed
ThreeAutomaticFailures(c) ==
    \A n \in 1..MAX_ATTEMPTS :
        \E a \in AutomaticAttempts(c) : /\ retryAttempts[a].attemptNumber = n
                                        /\ retryAttempts[a].status = "failed"

\* C32: for a case whose three automatic attempts have failed (it was paused,
\* and a manual retry made it active again), the decline of a manual attempt
\* inserts no retry attempt and sets the case to paused.
C32_ManualDeclineStaysPaused ==
    [][\A e \in DOMAIN exec :
          (/\ exec[e].pc = "ex_next"
           /\ exec'[e].pc = "idle"
           /\ exec[e].attemptId \in AttemptIds
           /\ retryAttempts[exec[e].attemptId].origin = "manual"
           /\ ThreeAutomaticFailures(exec[e].failedPaymentId))
          => /\ retryAttempts' = retryAttempts
             /\ failedPayments'[exec[e].failedPaymentId].status = "paused"]_vars

\* the case was paused by its third automatic failure, a manual retry has
\* been declined, and the case is paused again with no attempt left pending
C32_Witness ==
    /\ exec[LibSlot].pc = "idle"
    /\ \E c \in CaseIds :
          /\ ThreeAutomaticFailures(c)
          /\ failedPayments[c].status = "paused"
          /\ \E a \in ManualAttempts(c) : /\ retryAttempts[a].status = "failed"
                                          /\ retryAttempts[a].attemptNumber = MAX_ATTEMPTS + 1
          /\ \A a \in AttemptsOf(c) : retryAttempts[a].status # "pending"

\* C33: the result executeRetryAttempt returns carries the attempt number of
\* the row it executed; on a decline its nextRetryAt is the scheduledAt of the
\* attempt row the call has just inserted, and it is null exactly when the
\* call set the case to paused instead; on a success it is null.
C33_ResultReportsOutcome ==
    [][\A e \in DOMAIN exec :
          (exec[e].pc \in {"ex_next", "ex_skip"} /\ exec'[e].pc = "idle")
          => LET result == RetryResult(e)
                 fp == exec[e].failedPaymentId
                 inserted == Len(retryAttempts') = Len(retryAttempts) + 1
             IN /\ result.attemptNumber = retryAttempts[result.attemptId].attemptNumber
                /\ result.success => result.nextRetryAt = NULL
                /\ ~result.success =>
                      /\ result.nextRetryAt # NULL
                            <=> /\ inserted
                                /\ retryAttempts'[Len(retryAttempts')].failedPaymentId = fp
                                /\ retryAttempts'[Len(retryAttempts')].scheduledAt
                                      = result.nextRetryAt
                      /\ result.nextRetryAt = NULL
                            <=> /\ ~inserted
                                /\ failedPayments'[fp].status = "paused"]_vars

\* a decline has inserted the next attempt at its scheduled day, and a later
\* decline, of an attempt numbered past the schedule, has paused the case
C33_Witness ==
    /\ exec[1].pc = "idle"
    /\ \E c \in CaseIds :
          /\ failedPayments[c].status = "paused"
          /\ \E a, b \in AttemptsOf(c) :
                /\ retryAttempts[a].status = "failed"
                /\ retryAttempts[b].origin = "schedule"
                /\ retryAttempts[b].attemptNumber = retryAttempts[a].attemptNumber + 1
                /\ retryAttempts[b].scheduledAt =
                      failedPayments[c].recoveryStartedAt
                         + RETRY_SCHEDULE_DAYS[retryAttempts[b].attemptNumber]
          /\ \E d \in AttemptsOf(c) : /\ retryAttempts[d].status = "failed"
                                       /\ retryAttempts[d].attemptNumber >= MAX_ATTEMPTS

\* C34: an active payment's first unsent template whose delay has passed is
\* eventually selected by a dunning scan (a dunning-email job is enqueued for
\* it), however many other active payments there are, as long as dunning
\* scans keep running.
C34_DueEmailEventuallySelected ==
    \A c \in {1, 2}, t \in {1, 2} :
        (/\ c \in CaseIds
         /\ failedPayments[c].status = "active"
         /\ t \in FirstDue(c))
        ~> (\E j \in dunningJobs : j.failedPaymentId = c /\ j.templateId = t)

\* C35: a case that is active eventually leaves the active status (recovered
\* or paused), or at least is waiting for the day of a pending retry attempt
\* that has not come yet, as long as the retry scans keep running and the
\* gateway answers every charge with a success or a decline.
C35_CaseLeavesActive ==
    \A c \in {1} :
        (c \in CaseIds /\ failedPayments[c].status = "active")
        ~> \/ ~(c \in CaseIds /\ failedPayments[c].status = "active")
           \/ \E a \in AttemptsOf(c) : /\ retryAttempts[a].status = "pending"
                                        /\ retryAttempts[a].scheduledAt > now

\* C36: at the moment executeDunningEmail hands an email to the provider
\* (resend.emails.send), the stored status of the payment is active.
C36_SendOnlyWhileActive ==
    [][(dexec.pc = "de_send" /\ dexec'.pc \in {"de_sent", "de_failed"})
       => failedPayments[dexec.job.failedPaymentId].status = "active"]_vars

\* C37: a retry attempt whose status has left pending (success, failed or
\* skipped) keeps that status in every later step.
C37_AttemptStatusFinal ==
    [][\A a \in AttemptIds :
          retryAttempts[a].status # "pending"
          => retryAttempts'[a].status = retryAttempts[a].status]_vars

\* C38: a case whose status is paused has no retry attempt with status
\* pending.
C38_PausedHasNoPending ==
    \A c \in CaseIds :
        failedPayments[c].status = "paused"
        => \A a \in AttemptsOf(c) : retryAttempts[a].status # "pending"

\* the template with every {{customer_name}}, {{amount_due}} and
\* {{update_link}} replaced by the value supplied for it, everything else
\* left as it is
RECURSIVE Substituted(_, _)
Substituted(template, values) ==
    IF template = <<>> THEN <<>>
    ELSE (IF Head(template) = "{{customer_name}}" THEN values.customer_name
          ELSE IF Head(template) = "{{amount_due}}" THEN values.amount_due
          ELSE IF Head(template) = "{{update_link}}" THEN values.update_link
          ELSE <<Head(template)>>) \o Substituted(Tail(template), values)

\* C39: what renderTemplate returns is the template with every occurrence of
\* {{customer_name}}, {{amount_due}} and {{update_link}} replaced by the
\* supplied value and everything else unchanged, and the worker's and the
\* web's renderTemplate return the same text.
C39_RenderSubstitutes ==
    rendering.template # <<>> =>
        /\ rendering.worker = Substituted(rendering.template, rendering.vars)
        /\ rendering.web = rendering.worker

\* C40: started from the same store with the same answer of the gateway, the
\* worker's and the web library's executeRetryAttempt leave the same
\* failed_payments and retry_attempts rows and return the same result, or
\* both throw.
C40_ExecutorsEquivalent ==
    trial.called => trial.worker = trial.web

\* both versions have handled a decline that exhausted the schedule: the case
\* is paused and the result carries no next retry
C40_Witness ==
    /\ trial.called
    /\ ~trial.worker.raised
    /\ ~trial.worker.result.success
    /\ trial.worker.result.nextRetryAt = NULL
    /\ trial.worker.failedPayments[trial.failedPaymentId].status = "paused"
    /\ trial.web.failedPayments[trial.failedPaymentId].status = "paused"


\* ------------------------------------------------------------------ spec
Init ==
    /\ now = 0
    /\ failedPayments = <<>>
    /\ retryAttempts = <<>>
    /\ wh = [h \in WebhookSlots |-> WhIdle]
    /\ req = [r \in RequestSlots |-> ReqIdle]
    /\ queue = EmptyBag
    /\ exec = [e \in {LibSlot} \cup WorkerSlots |-> ExecIdle]
    /\ scan = ScanIdle
    /\ chargeCalls = [once |-> {}, again |-> {}]
    /\ InitDunning
    /\ InitServices

\* The whole system with one handler of each kind in progress at a time.
Next ==
    \/ Tick
    \/ Webhook(1, {"in_1"})
    \/ BatchScan
    \/ Worker(1)
    \/ Route(1)
    \/ ManualRetry

Spec == Init /\ [][Next]_vars

\* The webhook ingestor alone, two deliveries in progress at a time.
NextIngest ==
    \/ Tick
    \/ \E h \in WebhookSlots : Webhook(h, {"in_1"})

SpecIngest == Init /\ [][NextIngest]_vars

\* Webhook ingestor, batch scan and retry worker.
NextWorker ==
    \/ Tick
    \/ Webhook(1, {"in_1"})
    \/ BatchScan
    \/ Worker(1)

SpecWorker == Init /\ [][NextWorker]_vars

\* Webhook ingestor, batch scan and the retry worker with two jobs in progress
\* at a time (the worker runs its jobs with a concurrency above one).
NextWorkers ==
    \/ Tick
    \/ Webhook(1, {"in_1"})
    \/ BatchScan
    \/ \E e \in WorkerSlots : Worker(e)

SpecWorkers == Init /\ [][NextWorkers]_vars

\* Webhook ingestor and concurrent manual-retry requests.
NextManual ==
    \/ Webhook(1, {"in_1"})
    \/ \E r \in RequestSlots : Route(r)

SpecManual == Init /\ [][NextManual]_vars

\* Webhook ingestor, the library's manualRetry and the manual-retry route.
NextLibrary ==
    \/ Webhook(1, {"in_1"})
    \/ ManualRetry
    \/ Route(1)

SpecLibrary == Init /\ [][NextLibrary]_vars

\* Webhook ingestor, one manual-retry request at a time and the retry worker
\* that runs the jobs the route enqueues.
NextRetry ==
    \/ Webhook(1, {"in_1"})
    \/ Route(1)
    \/ Worker(1)

SpecRetry == Init /\ [][NextRetry]_vars

\* Webhook ingestor and two manual-retry requests in progress at a time.
NextRequest ==
    \/ Webhook(1, {"in_1"})
    \/ Route(1)
    \/ Route(2)

SpecRequest == Init /\ [][NextRequest]_vars

\* executeRetryAttempt on its own: one retry-job waits for the worker, for a
\* payment row drawn from every status, with and without a stripeInvoiceId,
\* with a usable, an undecryptable or a missing connection, or for no row.
PaymentStatuses == {"active", "recovered", "canceled", "paused"}

InitExecute ==
    /\ now = 0
    /\ failedPayments \in {<<>>} \cup
          {<<[userId |-> "u1", stripeConnectionId |-> conn, stripeInvoiceId |-> inv,
              status |-> st, recoveryStartedAt |-> 0,
              recoveredAt |-> IF st = "recovered" THEN 0 ELSE NULL,
              createdAt |-> 0]>> :
             conn \in 1..(Len(stripeConnections) + 1), inv \in {"in_1", ""},
             st \in PaymentStatuses}
    /\ retryAttempts = <<NewAttempt(1, 1, 0, "manual")>>
    /\ wh = [h \in WebhookSlots |-> WhIdle]
    /\ req = [r \in RequestSlots |-> ReqIdle]
    /\ queue = SetToBag({Job(1, 1, 1, <<1, 1>>)})
    /\ exec = [e \in {LibSlot} \cup WorkerSlots |-> ExecIdle]
    /\ scan = ScanIdle
    /\ chargeCalls = [once |-> {}, again |-> {}]
    /\ InitDunning
    /\ InitServices

NextExecute ==
    \/ Tick
    \/ Worker(1)

SpecExecute == InitExecute /\ [][NextExecute]_vars

\* Dunning: the dunning scan and the dunning worker, for a payment the webhook
\* ingestor recorded at time 0 (with its first retry attempt), which a
\* payment_succeeded delivery may recover at any moment.
InitDunningScan ==
    /\ now = 0
    /\ failedPayments =
          <<[userId |-> "u1", stripeConnectionId |-> 1, stripeInvoiceId |-> "in_1",
             status |-> "active", recoveryStartedAt |-> 0, recoveredAt |-> NULL,
             createdAt |-> 0]>>
    /\ retryAttempts = <<NewAttempt(1, 1, FIRST_RETRY_DAYS, "webhook")>>
    /\ wh = [h \in WebhookSlots |-> WhIdle]
    /\ req = [r \in RequestSlots |-> ReqIdle]
    /\ queue = EmptyBag
    /\ exec = [e \in {LibSlot} \cup WorkerSlots |-> ExecIdle]
    /\ scan = ScanIdle
    /\ chargeCalls = [once |-> {}, again |-> {}]
    /\ InitDunning
    /\ InitServices

PaymentSucceeded(h) ==
    \/ \E acct \in StripeAccounts :
          WebhookReceive(h, "invoice.payment_succeeded", acct, "in_1") /\ UNCHANGED post
    \/ PsFind(h)
    \/ PsUpdate(h)
    \/ PsSkip(h)

NextDunning ==
    \/ Tick
    \/ PaymentSucceeded(1)
    \/ DunningScan
    \/ DunningWorker

SpecDunning == InitDunningScan /\ [][NextDunning]_vars

\* The webhook endpoint: requests with any signature header, one at a time,
\* and handlers that may fail at any of their queries.
NextEndpoint ==
    \/ \E sigHeader \in SigHeaders, secret \in BOOLEAN, type \in EventTypes,
          acct \in StripeAccounts :
             Post(1, sigHeader, secret, type, acct, "in_1")
    \/ WebhookHandle(1)
    \/ WhThrow(1)

SpecEndpoint == Init /\ [][NextEndpoint]_vars

\* The scheduler: worker processes that start, and start again, at any time.
NextScheduler ==
    \/ Tick
    \/ \E p \in WorkerProcesses : upsertScheduledJobs(p)

SpecScheduler == Init /\ [][NextScheduler]_vars

\* Dunning with the delivery events of the emails that were sent.
NextDelivery ==
    \/ Tick
    \/ DunningScan
    \/ DunningWorker
    \/ \E type \in ResendEventTypes, m \in 1..MaxEmails : ResendWebhook(type, m)

SpecDelivery == InitDunningScan /\ [][NextDelivery]_vars

\* Dunning scan and dunning worker alone, for the payment recorded at time 0.
NextDunningOnly ==
    \/ Tick
    \/ DunningScan
    \/ DunningWorker

SpecDunningOnly == InitDunningScan /\ [][NextDunningOnly]_vars

\* Dunning for a payment that stays active, with a provider that fails sends
\* of step 1 only.  Time passes; the repeating dunning-scan job makes the scan
\* run again and again; the worker processes every job that is waiting.
NextDunningLive ==
    \/ Tick
    \/ DunningScan
    \/ DunningWorkerStepOneFails

SpecDunningLive ==
    /\ InitDunningScan
    /\ [][NextDunningLive]_vars
    /\ WF_vars(Tick)
    /\ WF_vars(DunningScan)
    /\ WF_vars(DunningWorkerStepOneFails)

\* executeDunningEmail on its own: one dunning-email job waits for the worker,
\* for a payment row drawn from every status and a template drawn from the
\* sequence.
InitDunningExecute ==
    /\ now = 0
    /\ failedPayments \in
          {<<[userId |-> "u1", stripeConnectionId |-> 1, stripeInvoiceId |-> "in_1",
              status |-> st, recoveryStartedAt |-> 0,
              recoveredAt |-> IF st = "recovered" THEN 0 ELSE NULL,
              createdAt |-> 0]>> : st \in PaymentStatuses}
    /\ retryAttempts = <<>>
    /\ wh = [h \in WebhookSlots |-> WhIdle]
    /\ req = [r \in RequestSlots |-> ReqIdle]
    /\ queue = EmptyBag
    /\ exec = [e \in {LibSlot} \cup WorkerSlots |-> ExecIdle]
    /\ scan = ScanIdle
    /\ chargeCalls = [once |-> {}, again |-> {}]
    /\ dunningEmails = <<>>
    /\ dunningJobs \in {{DunningJob(1, t, 0)} : t \in TemplateIds}
    /\ dexec = DexecIdle
    /\ dscan = DscanIdle
    /\ overdue = {}
    /\ InitServices

NextDunningExecute ==
    \/ Tick
    \/ DunningWorker

SpecDunningExecute == InitDunningExecute /\ [][NextDunningExecute]_vars
\* After the automatic schedule: a case recorded at time 0 whose three
\* automatic attempts were declined on their days, the third decline having
\* paused it.  The owner retries by hand through the library, and a
\* payment_succeeded delivery for the invoice may arrive at any moment.
InitExhausted ==
    /\ now = RETRY_SCHEDULE_DAYS[3]
    /\ failedPayments =
          <<[userId |-> "u1", stripeConnectionId |-> 1, stripeInvoiceId |-> "in_1",
             status |-> "paused", recoveryStartedAt |-> 0, recoveredAt |-> NULL,
             createdAt |-> 0]>>
    /\ retryAttempts =
          <<[NewAttempt(1, 1, RETRY_SCHEDULE_DAYS[1], "webhook") EXCEPT
                !.status = "failed", !.attemptedAt = RETRY_SCHEDULE_DAYS[1]],
            [NewAttempt(1, 2, RETRY_SCHEDULE_DAYS[2], "schedule") EXCEPT
                !.status = "failed", !.attemptedAt = RETRY_SCHEDULE_DAYS[2]],
            [NewAttempt(1, 3, RETRY_SCHEDULE_DAYS[3], "schedule") EXCEPT
                !.status = "failed", !.attemptedAt = RETRY_SCHEDULE_DAYS[3]]>>
    /\ wh = [h \in WebhookSlots |-> WhIdle]
    /\ req = [r \in RequestSlots |-> ReqIdle]
    /\ queue = EmptyBag
    /\ exec = [e \in {LibSlot} \cup WorkerSlots |-> ExecIdle]
    /\ scan = ScanIdle
    /\ chargeCalls = [once |-> {1, 2, 3}, again |-> {}]
    /\ InitDunning
    /\ InitServices

NextExhausted ==
    \/ ManualRetry
    \/ PaymentSucceeded(1)

SpecExhausted == InitExhausted /\ [][NextExhausted]_vars
\* The dunning scan for two payments of the same owner recorded at time 0.
\* Time passes and the repeating dunning-scan job makes the scan run again
\* and again; a payment_succeeded delivery may recover the first payment.
InitDunningBatch ==
    /\ now = 0
    /\ failedPayments =
          [c \in {1, 2} |->
              [userId |-> "u1", stripeConnectionId |-> 1,
               stripeInvoiceId |-> IF c = 1 THEN "in_1" ELSE "in_2",
               status |-> "active", recoveryStartedAt |-> 0, recoveredAt |-> NULL,
               createdAt |-> 0]]
    /\ retryAttempts = [c \in {1, 2} |-> NewAttempt(c, 1, FIRST_RETRY_DAYS, "webhook")]
    /\ wh = [h \in WebhookSlots |-> WhIdle]
    /\ req = [r \in RequestSlots |-> ReqIdle]
    /\ queue = EmptyBag
    /\ exec = [e \in {LibSlot} \cup WorkerSlots |-> ExecIdle]
    /\ scan = ScanIdle
    /\ chargeCalls = [once |-> {}, again |-> {}]
    /\ InitDunning
    /\ InitServices

NextDunningBatch ==
    \/ Tick
    \/ DunningScan
    \/ PaymentSucceeded(1)

SpecDunningBatch ==
    /\ InitDunningBatch
    /\ [][NextDunningBatch]_vars
    /\ WF_vars(Tick)
    /\ WF_vars(DunningScan)
\* Recovery to its end: the webhook ingestor, whose handler may fail at any
\* of its queries, the batch scan and the retry worker with a gateway that
\* answers every charge with a success or a decline.  Time passes, the
\* repeating batch-scan job makes the scan run again and again, the worker
\* processes the jobs, and a handler that does not fail runs to its end.
SpecRecovery ==
    /\ Init
    /\ [][\/ Tick
          \/ Webhook(1, {"in_1"})
          \/ WhThrow(1)
          \/ BatchScan
          \/ WorkerTake(1)
          \/ ExFetch(1)
          \/ ExMark(1)
          \/ ExNumber(1)
          \/ \E answer \in {"ok", "declined"} : ExCall(1, answer)
          \/ ExSuccess(1)
          \/ ExRecover(1)
          \/ ExSkip(1)
          \/ ExFailed(1)
          \/ ExNext(1)]_vars
    /\ WF_vars(Tick)
    /\ WF_vars(BatchScan)
    /\ WF_vars(Worker(1))
    /\ WF_vars(WebhookHandle(1))
\* The template renderer on its own.
SpecRender == Init /\ [][Render]_vars
\* The two versions of executeRetryAttempt side by side.  The store is one
\* the executor's own specification starts from, or one that manual retries
\* and a payment_succeeded delivery make of the exhausted case; at any point
\* the handlers stop and a trial call is made on the store as it is.
SpecEquivalence ==
    /\ InitExecute \/ InitExhausted
    /\ [][\/ ~trial.called /\ ManualRetry
          \/ ~trial.called /\ PaymentSucceeded(1)
          \/ Trial]_vars
====
